---- MODULE Spec2Model ----
(***************************************************************************)
(* logic-command-center: the manifest-to-diagram compiler (diagrams.ts,     *)
(* manifestClient.ts), the manifest client, the calling layer (App.tsx and  *)
(* the two diagram components) and the deploy scripts (indexer, server).    *)
(* Each part has a specification of its own over the same variables; the    *)
(* parts that a specification does not run stay idle.                       *)
(*                                                                         *)
(* Strings are sequences of one-character strings.  A character outside    *)
(* ASCII is written as one named token ("U+FF08" is the full-width left    *)
(* parenthesis, "U+0060" the backquote, which a TLA+ string cannot hold),  *)
(* and a fixed non-ASCII literal of an emitter is one token                *)
(* whose name starts with "zh:" (Lit("zh:rules") is the rule-line label).  *)
(* An emitted line is a record: its kind and the pieces the template       *)
(* literal is made of; mdRender gives the characters of an outline line.   *)
(***************************************************************************)
EXTENDS Integers, Sequences, FiniteSets, TLC

\* pc:  "ready" before the requested call has run, "done" after it
\* op:  the emitter that is called
\* arg: the manifest fragment it is called on
\* res: what the call gave: the lines pushed, and whether it threw
\* log: the earlier calls of the session, each with what it was given and
\*      what it gave
VARIABLES pc, op, arg, res, log

\* The calling layer and the deploy scripts, each an independent part of
\* the repository with a specification of its own:
\* load:    one fetchManifest call (manifestClient.ts)
\* disk, indexer, reader: the manifests directory, one indexer run over it
\*          and one static-server read of it (deploy/)
\* overview: the selection state of OverviewView (App.tsx)
\* app, runs, requested, diagram, mindmap, mermaidInitialized,
\*          initializeCalls, events: App's state, the effect runs in flight,
\*          the manifest requests issued, the two diagram components, the
\*          module flag of the rendering engine, how often it was
\*          initialized, and how many outside events have happened
VARIABLES load, disk, indexer, reader, overview
VARIABLES app, runs, requested, diagram, mindmap, mermaidInitialized,
          initializeCalls, events

emitterVars == <<pc, op, arg, res, log>>
loadVars == <<load>>
indexerVars == <<disk, indexer, reader>>
overviewVars == <<overview>>
shellVars == <<app, runs, requested, diagram, mindmap, mermaidInitialized,
               initializeCalls, events>>
hostVars == <<loadVars, indexerVars, overviewVars, shellVars>>
vars == <<emitterVars, hostVars>>

\* ------------------------------------------------------------------ bounds
MaxSteps == 3
MaxOrder == 3
MaxStates == 2
MaxTransitions == 2
MaxModules == 2
MaxRawLen == 3
MaxTextLen == 3
MaxListLen == 4
MaxCalls == 3
MaxIndexModules == 3
MaxProjects == 2
FileChunks == 2
MaxEvents == 3

\* ------------------------------------------------------- optional values
\* An optional field of the manifest: absent (undefined) or present.
None == [has |-> FALSE, v |-> <<>>]
Some(x) == [has |-> TRUE, v |-> x]

\* JavaScript truthiness of an optional string: undefined and "" are falsy.
Truthy(o) == o.has /\ o.v # <<>>

\* ------------------------------------------------------------ characters
Digits == {"0", "1", "2", "3", "4", "5", "6", "7", "8", "9"}

Letters ==
  {"a", "b", "c", "d", "e", "f", "g", "h", "i", "j", "k", "l", "m",
   "n", "o", "p", "q", "r", "s", "t", "u", "v", "w", "x", "y", "z",
   "A", "B", "C", "D", "E", "F", "G", "H", "I", "J", "K", "L", "M",
   "N", "O", "P", "Q", "R", "S", "T", "U", "V", "W", "X", "Y", "Z"}

\* The character class [a-zA-Z0-9_] of safeNodeId.
IdChars == Letters \cup Digits \cup {"_"}

\* A fixed literal of an emitter that is not ASCII, as one token.
Lit(name) == <<name>>

DigitOf(d) ==
  CASE d = 0 -> "0" [] d = 1 -> "1" [] d = 2 -> "2" [] d = 3 -> "3"
    [] d = 4 -> "4" [] d = 5 -> "5" [] d = 6 -> "6" [] d = 7 -> "7"
    [] d = 8 -> "8" [] d = 9 -> "9"

RECURSIVE NumStr(_)
\* String(n) / `${n}` of a non-negative integer.
NumStr(n) == IF n < 10 THEN <<DigitOf(n)>> ELSE NumStr(n \div 10) \o <<DigitOf(n % 10)>>

RECURSIVE ReplaceAll(_, _, _)
\* String.prototype.replaceAll(c, r) for a one-character pattern c.
ReplaceAll(s, c, r) ==
  IF s = <<>> THEN <<>>
  ELSE (IF Head(s) = c THEN r ELSE <<Head(s)>>) \o ReplaceAll(Tail(s), c, r)

RECURSIVE Join(_, _)
\* Array.prototype.join(sep).
Join(xs, sep) ==
  IF xs = <<>> THEN <<>>
  ELSE IF Len(xs) = 1 THEN xs[1]
  ELSE xs[1] \o sep \o Join(Tail(xs), sep)

Has(s, c) == \E i \in 1..Len(s) : s[i] = c

\* ------------------------------------------------- sanitizers (diagrams.ts)
safeNodeId_DigitFirst(prefix, raw) ==
  LET id == [i \in 1..Len(raw) |-> IF raw[i] \in IdChars THEN raw[i] ELSE "_"]
      r == prefix \o id
  IN IF r = <<>> THEN prefix \o <<"x">> ELSE r

safeNodeId_Drop(prefix, raw) ==
  LET id == SelectSeq(raw, LAMBDA c : c \in IdChars)
      normalized == IF id # <<>> /\ id[1] \in Digits THEN <<"_">> \o id ELSE id
      r == prefix \o normalized
  IN IF r = <<>> THEN prefix \o <<"x">> ELSE r

\* raw.replace(/[^a-zA-Z0-9_]/g, '_'), a '_' in front of a leading digit, and
\* `${prefix}${normalized}` || `${prefix}x`: the fallback is taken when the
\* whole concatenation is the empty string.
safeNodeId(prefix, raw) ==
  LET id == [i \in 1..Len(raw) |-> IF raw[i] \in IdChars THEN raw[i] ELSE "_"]
      normalized == IF id # <<>> /\ id[1] \in Digits THEN <<"_">> \o id ELSE id
      r == prefix \o normalized
  IN IF r = <<>> THEN prefix \o <<"x">> ELSE r

escapeLabel_NoBackslash(text) ==
  ReplaceAll(ReplaceAll(text, "\"", <<"'">>), "\n", <<"<", "b", "r", "/", ">">>)

\* String(text).replaceAll('\\', '\\\\').replaceAll('"', "'").replaceAll('\n', '<br/>')
escapeLabel(text) ==
  ReplaceAll(
    ReplaceAll(ReplaceAll(text, "\\", <<"\\", "\\">>), "\"", <<"'">>),
    "\n", <<"<", "b", "r", "/", ">">>)

escapeMindmapText_ParensOnly(text) ==
  ReplaceAll(ReplaceAll(escapeLabel(text), "(", <<"U+FF08">>), ")", <<"U+FF09">>)

\* escapeLabel(text) with ( ) [ ] replaced by their full-width forms.
escapeMindmapText(text) ==
  ReplaceAll(
    ReplaceAll(
      ReplaceAll(ReplaceAll(escapeLabel(text), "(", <<"U+FF08">>), ")", <<"U+FF09">>),
      "[", <<"U+3010">>),
    "]", <<"U+3011">>)

formatCodeRef_FileOnly(ref) == IF ~ref.has THEN <<>> ELSE ref.v.file

\* if (!ref) return ''; parts = [ref.file], then ref.function when truthy,
\* then String(ref.line) when it is a number; parts.join(':').
formatCodeRef(ref) ==
  IF ~ref.has THEN <<>>
  ELSE LET r == ref.v
           parts == <<r.file>>
                    \o (IF Truthy(r.function) THEN <<r.function.v>> ELSE <<>>)
                    \o (IF r.line.has THEN <<NumStr(r.line.v)>> ELSE <<>>)
       IN Join(parts, <<":">>)

RECURSIVE Uniq(_, _)
Uniq(xs, seen) ==
  IF xs = <<>> THEN <<>>
  ELSE IF Head(xs) \in seen THEN Uniq(Tail(xs), seen)
  ELSE <<Head(xs)>> \o Uniq(Tail(xs), seen \cup {Head(xs)})

RECURSIVE UniqLast(_)
UniqLast(xs) ==
  IF xs = <<>> THEN <<>>
  ELSE IF \E i \in 2..Len(xs) : xs[i] = Head(xs) THEN UniqLast(Tail(xs))
  ELSE <<Head(xs)>> \o UniqLast(Tail(xs))

uniqueStrings_KeepLast(xs) == UniqLast(SelectSeq(xs, LAMBDA x : x # <<>>))

\* Array.from(new Set(xs.filter(Boolean)))
uniqueStrings(xs) == Uniq(SelectSeq(xs, LAMBDA x : x # <<>>), {})

\* ------------------------------------------------------------------ lines
Header(text) == [kind |-> "header", text |-> text]
\* `  ${id}${open}"${label}"${close}`
Node(id, open, label, close) ==
  [kind |-> "node", id |-> id, open |-> open, label |-> label, close |-> close]
\* `  ${from} --> ${to}` (solid) or `  ${from} -.-> ${to}` (dotted)
Edge(from, to, arrow) == [kind |-> "edge", from |-> from, to |-> to, arrow |-> arrow]

\* What a call gives its caller: the lines of the returned text (the emitter
\* returns lines.join('\n')), or an exception and no text.
Ok(lines) == [threw |-> FALSE, lines |-> lines]

newLines_Kept == res.lines

\* const lines: string[] = []: every call of an emitter starts from an array
\* of its own; nothing is left from an earlier call.
newLines == <<>>
\* What a call of a helper gives: the value it returns.
Returned(v) == [threw |-> FALSE, value |-> v]
Threw == [threw |-> TRUE, lines |-> <<>>]

\* ------------------------------------------- generateFlowchartForFlow
RECURSIVE InsertByOrder(_, _)
\* x goes after every element whose order is <= x.order (a stable sort).
InsertByOrder(sorted, x) ==
  IF sorted = <<>> THEN <<x>>
  ELSE IF Head(sorted).order <= x.order
       THEN <<Head(sorted)>> \o InsertByOrder(Tail(sorted), x)
       ELSE <<x>> \o sorted

RECURSIVE SortFrom(_, _)
SortFrom(done, rest) ==
  IF rest = <<>> THEN done ELSE SortFrom(InsertByOrder(done, Head(rest)), Tail(rest))

sortSteps_Unsorted(steps) == steps

\* [...flow.steps].sort((a, b) => a.order - b.order)
sortSteps(steps) == SortFrom(<<>>, steps)

ruleNameOf_First(rules, rid) ==
  LET hits == {i \in 1..Len(rules) : rules[i].id = rid}
  IN IF hits = {} THEN rid
     ELSE rules[CHOOSE i \in hits : \A j \in hits : i <= j].name

\* rulesById.get(rid)?.name ?? rid; the Map keeps the last rule of an id.
ruleNameOf(rules, rid) ==
  LET hits == {i \in 1..Len(rules) : rules[i].id = rid}
  IN IF hits = {} THEN rid
     ELSE rules[CHOOSE i \in hits : \A j \in hits : j <= i].name

stepRuleNames(s, rules) ==
  LET rids == IF s.rules.has THEN s.rules.v ELSE <<>>
  IN uniqueStrings([i \in 1..Len(rids) |-> ruleNameOf(rules, rids[i])])

\* The label of a step node before escaping: parts.join('\n').
stepParts(s, rules) ==
  LET ruleNames == stepRuleNames(s, rules)
      parts == <<NumStr(s.order) \o <<".", " ">> \o s.name>>
               \o (IF Truthy(s.description) THEN <<s.description.v>> ELSE <<>>)
               \o (IF Len(ruleNames) > 0
                   THEN <<Lit("zh:rules:") \o Join(ruleNames, Lit("zh:,"))>>
                   ELSE <<>>)
  IN Join(parts, <<"\n">>)

stepId(i) == <<"S">> \o NumStr(i)

stepNodes(sorted, rules) ==
  [i \in 1..Len(sorted) |->
     Node(stepId(i), <<"[">>, escapeLabel(stepParts(sorted[i], rules)), <<"]">>)]

chainEdges_Always(n) ==
  <<Node(<<"E", "M", "P", "T", "Y">>, <<"[">>, Lit("zh:no-steps"), <<"]">>),
    Edge(<<"T", "R">>, <<"E", "M", "P", "T", "Y">>, "-->")>>
  \o (IF n = 0 THEN <<>>
      ELSE <<Edge(<<"T", "R">>, stepId(1), "-->")>>
           \o [i \in 1..(n - 1) |-> Edge(stepId(i), stepId(i + 1), "-->")])

\* The placeholder of a flow without steps, or the chain TR -> S1 -> ... -> Sn.
chainEdges(n) ==
  IF n = 0
  THEN <<Node(<<"E", "M", "P", "T", "Y">>, <<"[">>, Lit("zh:no-steps"), <<"]">>),
         Edge(<<"T", "R">>, <<"E", "M", "P", "T", "Y">>, "-->")>>
  ELSE <<Edge(<<"T", "R">>, stepId(1), "-->")>>
       \o [i \in 1..(n - 1) |-> Edge(stepId(i), stepId(i + 1), "-->")]

generateFlowchartForFlow(flow, rules) ==
  LET triggerLabel == IF Truthy(flow.trigger)
                      THEN Lit("zh:trigger:") \o flow.trigger.v
                      ELSE Lit("zh:trigger:") \o <<"-">>
      sorted == sortSteps(flow.steps)
      code == formatCodeRef(flow.code_ref)
  IN Ok(newLines
        \o <<Header(<<"f", "l", "o", "w", "c", "h", "a", "r", "t", " ", "T", "D">>),
          Node(<<"T">>, <<"[">>, escapeLabel(flow.name), <<"]">>),
          Node(<<"T", "R">>, <<"(", "[">>, escapeLabel(triggerLabel), <<"]", ")">>),
          Edge(<<"T">>, <<"T", "R">>, "-->")>>
        \o stepNodes(sorted, rules)
        \o chainEdges(Len(sorted))
        \o (IF code # <<>>
            THEN <<Node(<<"C", "O", "D", "E">>, <<"[">>,
                        escapeLabel(Lit("zh:code:") \o code), <<"]">>),
                   Edge(<<"T">>, <<"C", "O", "D", "E">>, "-.->")>>
            ELSE <<>>))

\* --------------------------------------------------- generateStateDiagram
\* `  %% ${text}`
Comment(text) == [kind |-> "comment", text |-> text]
\* `  state "${name}" as ${alias}`
StateDecl(name, alias) == [kind |-> "state", name |-> name, alias |-> alias]
\* `  ${from} --> ${to}${label}`
Arrow(from, to, label) == [kind |-> "arrow", from |-> from, to |-> to, label |-> label]

\* The start and end pseudostate [*].
Pseudo == <<"[", "*", "]">>

\* An optional boolean flag (is_initial, is_final) read as a condition.
Flag(o) == o.has /\ o.v

aliasOf_First(states, id) ==
  LET hits == {i \in 1..Len(states) : states[i].id = id}
  IN IF hits = {} THEN safeNodeId(<<"S">>, id)
     ELSE <<"S">> \o NumStr(CHOOSE i \in hits : \A j \in hits : i <= j)

\* aliasById.get(id) ?? safeNodeId('S', id), where aliasById is filled by
\* aliasById.set(states[i].id, `S${i + 1}`) for i = 0, 1, ...: a later state
\* of the same id overwrites the alias of an earlier one.
aliasOf(states, id) ==
  LET hits == {i \in 1..Len(states) : states[i].id = id}
  IN IF hits = {} THEN safeNodeId(<<"S">>, id)
     ELSE <<"S">> \o NumStr(CHOOSE i \in hits : \A j \in hits : j <= i)

\* sm.states.find(s => s.is_initial)?.id ?? sm.states[0]?.id
initialId(states) ==
  LET flagged == {i \in 1..Len(states) : Flag(states[i].is_initial)}
  IN IF flagged # {}
     THEN Some(states[CHOOSE i \in flagged : \A j \in flagged : i <= j].id)
     ELSE IF states # <<>> THEN Some(states[1].id) ELSE None

\* if (initial) lines.push(`  [*] --> ${to}`)
initialArrow(states) ==
  LET initial == initialId(states)
  IN IF Truthy(initial) THEN <<Arrow(Pseudo, aliasOf(states, initial.v), <<>>)>> ELSE <<>>

transitionArrow(states, t) ==
  Arrow(aliasOf(states, t.from), aliasOf(states, t.to),
        IF t.trigger # <<>> THEN <<":", " ">> \o t.trigger ELSE <<>>)

transitionArrows_DropDangling(states, transitions) ==
  LET known(id) == \E i \in 1..Len(states) : states[i].id = id
      kept == SelectSeq(transitions, LAMBDA t : known(t.from) /\ known(t.to))
  IN [i \in 1..Len(kept) |-> transitionArrow(states, kept[i])]

\* for (const t of sm.transitions) lines.push(`  ${from} --> ${to}${label}`)
transitionArrows(states, transitions) ==
  [i \in 1..Len(transitions) |-> transitionArrow(states, transitions[i])]

finalArrows(states) ==
  LET finals == SelectSeq(states, LAMBDA s : Flag(s.is_final))
  IN [i \in 1..Len(finals) |-> Arrow(aliasOf(states, finals[i].id), Pseudo, <<>>)]

generateStateDiagram(sm) ==
  Ok(newLines
     \o <<Header(<<"s", "t", "a", "t", "e", "D", "i", "a", "g", "r", "a", "m", "-", "v", "2">>),
       Comment(escapeLabel(sm.name \o <<"U+FF08">> \o sm.entity \o <<".">> \o sm.field
                           \o <<"U+FF09">>))>>
     \o [i \in 1..Len(sm.states) |->
           StateDecl(escapeLabel(sm.states[i].name), aliasOf(sm.states, sm.states[i].id))]
     \o initialArrow(sm.states)
     \o transitionArrows(sm.states, sm.transitions)
     \o finalArrows(sm.states))

\* ------------------------------------------ generateModuleDependencyGraph
RECURSIVE Flatten(_)
Flatten(ss) == IF ss = <<>> THEN <<>> ELSE Head(ss) \o Flatten(Tail(ss))

\* byId.get(dep): the Map keeps the last module of an id; 0 when there is none.
moduleById(modules, dep) ==
  LET hits == {i \in 1..Len(modules) : modules[i].id = dep}
  IN IF hits = {} THEN 0 ELSE CHOOSE i \in hits : \A j \in hits : j <= i

moduleNode_RawId(m) ==
  Node(<<"m", "o", "d", "_">> \o m.id, <<"[">>,
       escapeLabel(m.name) \o <<"<", "b", "r", "/", ">", "(">> \o escapeLabel(m.id) \o <<")">>,
       <<"]">>)

\* `  ${id}["${escapeLabel(m.name)}<br/>(${escapeLabel(m.id)})"]`
moduleNode(m) ==
  Node(safeNodeId(<<"m", "o", "d", "_">>, m.id), <<"[">>,
       escapeLabel(m.name) \o <<"<", "b", "r", "/", ">", "(">> \o escapeLabel(m.id) \o <<")">>,
       <<"]">>)

externalNode_ModPrefix(dep) ==
  Node(safeNodeId(<<"m", "o", "d", "_">>, dep), <<"[">>,
       escapeLabel(dep) \o <<"<", "b", "r", "/", ">", "(">> \o Lit("zh:external-module")
         \o <<")">>,
       <<"]">>)

\* `  ${to}["${escapeLabel(dep)}<br/>(<external/unknown module>)"]`
externalNode(dep) ==
  Node(safeNodeId(<<"e", "x", "t", "_">>, dep), <<"[">>,
       escapeLabel(dep) \o <<"<", "b", "r", "/", ">", "(">> \o Lit("zh:external-module")
         \o <<")">>,
       <<"]">>)

\* The lines of one dependency of module m: the external node when the
\* dependency is no module of the manifest, then the edge.
dependencyLines(modules, m, dep) ==
  LET k == moduleById(modules, dep)
      from == safeNodeId(<<"m", "o", "d", "_">>, m.id)
      to == IF k # 0 THEN safeNodeId(<<"m", "o", "d", "_">>, modules[k].id)
            ELSE safeNodeId(<<"e", "x", "t", "_">>, dep)
  IN (IF k = 0 THEN <<externalNode(dep)>> ELSE <<>>) \o <<Edge(from, to, "-->")>>

moduleDependencies_NoDedupe(m) ==
  SelectSeq(IF m.dependencies.has THEN m.dependencies.v ELSE <<>>, LAMBDA x : x # <<>>)

\* uniqueStrings(m.dependencies ?? [])
moduleDependencies(m) ==
  uniqueStrings(IF m.dependencies.has THEN m.dependencies.v ELSE <<>>)

moduleEdges(modules, m) ==
  LET deps == moduleDependencies(m)
  IN Flatten([i \in 1..Len(deps) |-> dependencyLines(modules, m, deps[i])])

generateModuleDependencyGraph(manifest) ==
  LET modules == manifest.modules
  IN Ok(newLines
        \o <<Header(<<"f", "l", "o", "w", "c", "h", "a", "r", "t", " ", "L", "R">>)>>
        \o [i \in 1..Len(modules) |-> moduleNode(modules[i])]
        \o Flatten([i \in 1..Len(modules) |-> moduleEdges(modules, modules[i])]))

\* ------------------------------------------------ generateMindmapMarkdown
\* The greatest heading depth of pushTitle and the greatest extra indent of a
\* pseudocode step.
MaxHeadingLevel == 6
MaxStepIndent == 6

Min(a, b) == IF a < b THEN a ELSE b
Max(a, b) == IF a > b THEN a ELSE b

\* String(x): the text of an optional value; undefined gives "undefined".
JsString(o) == IF o.has THEN o.v ELSE <<"u", "n", "d", "e", "f", "i", "n", "e", "d">>

Whitespace == {" ", "\t", "\n", "\r"}

RECURSIVE TrimStart(_)
TrimStart(s) == IF s # <<>> /\ Head(s) \in Whitespace THEN TrimStart(Tail(s)) ELSE s

RECURSIVE TrimEnd(_)
TrimEnd(s) ==
  IF s # <<>> /\ s[Len(s)] \in Whitespace THEN TrimEnd(SubSeq(s, 1, Len(s) - 1)) ELSE s

\* String.prototype.trim()
Trim(s) == TrimEnd(TrimStart(s))

mdEscape(text) ==
  Trim(ReplaceAll(ReplaceAll(ReplaceAll(ReplaceAll(ReplaceAll(ReplaceAll(ReplaceAll(text,
         "\r", <<>>),
         "&", <<"&", "a", "m", "p", ";">>),
         "<", <<"&", "l", "t", ";">>),
         ">", <<"&", "g", "t", ";">>),
         "\n", <<" ">>),
         "[", <<"U+3010">>),
         "]", <<"U+3011">>))

mdCode(text) ==
  IF Has(text, "U+0060")
  THEN <<"U+0060", "U+0060">> \o ReplaceAll(text, "U+0060", <<"\\", "U+0060">>) \o <<"U+0060", "U+0060">>
  ELSE <<"U+0060">> \o text \o <<"U+0060">>

\* formatCodeRef of the outline emitter: null (None) without a file.
mdFormatCodeRef(ref) ==
  IF ~ref.has \/ ref.v.file = <<>> THEN None
  ELSE LET r == ref.v
           parts == <<r.file>>
                    \o (IF Truthy(r.function) THEN <<r.function.v>> ELSE <<>>)
                    \o (IF r.line.has THEN <<NumStr(r.line.v)>> ELSE <<>>)
       IN Some(Join(parts, <<":">>))

\* push(lines, level, text): `${'  '.repeat(max(0, level))}- ${text}`
Bullet(level, text) == [kind |-> "bullet", level |-> Max(0, level), text |-> text]

\* pushTitle(lines, level, text): `${'#'.repeat(min(6, max(1, level)))} ${text}`
Title(level, text) ==
  [kind |-> "title", level |-> Min(MaxHeadingLevel, Max(1, level)), text |-> text]

\* The count in full-width parentheses after a collection's label.
Count(n) == <<"U+FF08">> \o NumStr(n) \o <<"U+FF09">>

Paren(text) == <<"U+FF08">> \o text \o <<"U+FF09">>

If(c, lines) == IF c THEN lines ELSE <<>>

codeLocation(ref) ==
  LET code == mdFormatCodeRef(ref)
  IN If(code.has, <<Bullet(2, Lit("zh:code-location:") \o mdCode(code.v))>>)

flowStepLine(s) ==
  LET parts == <<NumStr(s.order) \o <<".", " ">> \o mdEscape(s.name)>>
               \o (IF Truthy(s.description) THEN <<mdEscape(s.description.v)>> ELSE <<>>)
               \o (IF s.rules.has /\ Len(s.rules.v) > 0
                   THEN <<Lit("zh:rules:") \o mdEscape(Join(s.rules.v, Lit("zh:,")))>>
                   ELSE <<>>)
  IN Bullet(3, mdEscape(Join(parts, <<" ", "/", " ">>)))

flowLines(f) ==
  <<Bullet(1, mdEscape(f.name))>>
  \o If(Truthy(f.trigger), <<Bullet(2, Lit("zh:trigger:") \o mdEscape(f.trigger.v))>>)
  \o If(Truthy(f.description), <<Bullet(2, Lit("zh:desc:") \o mdEscape(f.description.v))>>)
  \o codeLocation(f.code_ref)
  \o If(Len(f.steps) > 0,
        <<Bullet(2, Lit("zh:steps") \o Count(Len(f.steps)))>>
        \o LET sorted == sortSteps(f.steps)
           IN [i \in 1..Len(sorted) |-> flowStepLine(sorted[i])])

priorityLabel(p) ==
  IF p = "high" THEN Lit("zh:high") ELSE IF p = "medium" THEN Lit("zh:medium") ELSE Lit("zh:low")

ruleLines(r) ==
  <<Bullet(1, mdEscape(r.name)),
    Bullet(2, Lit("zh:priority:") \o priorityLabel(r.priority))>>
  \o If(Truthy(r.category), <<Bullet(2, Lit("zh:category:") \o mdEscape(r.category.v))>>)
  \o If(r.description # <<>>, <<Bullet(2, Lit("zh:desc:") \o mdEscape(r.description))>>)
  \o codeLocation(r.code_ref)

stateLine(s) ==
  LET tags == (IF Flag(s.is_initial) THEN <<Lit("zh:initial")>> ELSE <<>>)
              \o (IF Flag(s.is_final) THEN <<Lit("zh:final")>> ELSE <<>>)
  IN Bullet(3, IF Len(tags) > 0 THEN mdEscape(s.name) \o Paren(Join(tags, Lit("zh:,")))
               ELSE mdEscape(s.name))

transitionLine(t) ==
  LET label == mdEscape(t.from) \o <<" ", "-", ">", " ">> \o mdEscape(t.to)
               \o <<" ", "/", " ">> \o Lit("zh:trigger:") \o mdEscape(t.trigger)
  IN Bullet(3, IF Truthy(t.description)
               THEN label \o <<" ", "/", " ">> \o mdEscape(t.description.v)
               ELSE label)

stateMachineLines(sm) ==
  <<Bullet(1, mdEscape(sm.name) \o Paren(mdEscape(sm.entity) \o <<".">> \o mdEscape(sm.field)))>>
  \o If(Truthy(sm.description), <<Bullet(2, Lit("zh:desc:") \o mdEscape(sm.description.v))>>)
  \o <<Bullet(2, Lit("zh:states") \o Count(Len(sm.states)))>>
  \o [i \in 1..Len(sm.states) |-> stateLine(sm.states[i])]
  \o If(Len(sm.transitions) > 0,
        <<Bullet(2, Lit("zh:transitions") \o Count(Len(sm.transitions)))>>
        \o [i \in 1..Len(sm.transitions) |-> transitionLine(sm.transitions[i])])

pseudocodeLines(pseudo) ==
  LET sig == pseudo.name \o <<"(">>
             \o (IF pseudo.params.has THEN Join(pseudo.params.v, <<",", " ">>) ELSE <<>>)
             \o <<")">>
  IN <<Bullet(1, mdCode(sig))>>
     \o If(Truthy(pseudo.description), <<Bullet(2, Lit("zh:desc:") \o mdEscape(pseudo.description.v))>>)
     \o If(Truthy(pseudo.returns), <<Bullet(2, Lit("zh:returns:") \o mdEscape(pseudo.returns.v))>>)
     \o codeLocation(pseudo.code_ref)
     \o If(Len(pseudo.steps) > 0,
           <<Bullet(2, Lit("zh:steps") \o Count(Len(pseudo.steps)))>>
           \o [i \in 1..Len(pseudo.steps) |->
                 Bullet(3 + Min(MaxStepIndent, Max(0, pseudo.steps[i].indent)),
                        mdEscape(pseudo.steps[i].text))])

codeRefLine(r) ==
  LET c == mdFormatCodeRef(Some(r))
  IN Bullet(1, IF c.has THEN mdCode(c.v) ELSE mdCode(r.file))

moduleToMarkdown(m) ==
  <<Title(3, mdEscape(m.name) \o Paren(mdEscape(m.id)))>>
  \o If(m.description # <<>>, <<Bullet(0, Lit("zh:desc:") \o mdEscape(m.description))>>)
  \o If(m.tags.has /\ Len(m.tags.v) > 0,
        <<Bullet(0, Lit("zh:tags:") \o mdEscape(Join(m.tags.v, Lit("zh:,"))))>>)
  \o If(m.dependencies.has /\ Len(m.dependencies.v) > 0,
        <<Bullet(0, Lit("zh:deps:") \o mdEscape(Join(m.dependencies.v, Lit("zh:,"))))>>)
  \o If(m.code_refs.has /\ Len(m.code_refs.v) > 0,
        <<Bullet(0, Lit("zh:code-entries") \o Count(Len(m.code_refs.v)))>>
        \o [i \in 1..Len(m.code_refs.v) |-> codeRefLine(m.code_refs.v[i])])
  \o If(Len(m.flows) > 0,
        <<Bullet(0, Lit("zh:flows") \o Count(Len(m.flows)))>>
        \o Flatten([i \in 1..Len(m.flows) |-> flowLines(m.flows[i])]))
  \o If(Len(m.rules) > 0,
        <<Bullet(0, Lit("zh:rules") \o Count(Len(m.rules)))>>
        \o Flatten([i \in 1..Len(m.rules) |-> ruleLines(m.rules[i])]))
  \o If(Len(m.state_machines) > 0,
        <<Bullet(0, Lit("zh:state-machines") \o Count(Len(m.state_machines)))>>
        \o Flatten([i \in 1..Len(m.state_machines) |->
                      stateMachineLines(m.state_machines[i])]))
  \o If(Len(m.pseudocodes) > 0,
        <<Bullet(0, Lit("zh:pseudocode") \o Count(Len(m.pseudocodes)))>>
        \o Flatten([i \in 1..Len(m.pseudocodes) |-> pseudocodeLines(m.pseudocodes[i])]))

keyFieldLine(f) ==
  LET meta == Join(<<Lit("zh:field-name:") \o f.name>>
                   \o (IF Truthy(f.source) THEN <<Lit("zh:source:") \o f.source.v>> ELSE <<>>),
                   <<" ", "/", " ">>)
  IN Bullet(1, mdEscape(f.label) \o Lit("zh::") \o mdEscape(f.description)
               \o Paren(mdEscape(meta)))

statusLine(s) ==
  Bullet(1, mdEscape(s.label) \o Paren(mdEscape(s.value))
            \o (IF Truthy(s.description) THEN Lit("zh::") \o mdEscape(s.description.v)
                ELSE <<>>))

entityLines(e) ==
  <<Title(3, mdEscape(e.name) \o Paren(mdEscape(e.id))),
    Bullet(0, Lit("zh:desc:") \o mdEscape(JsString(e.description)))>>
  \o If(e.models.has /\ Len(e.models.v) > 0,
        <<Bullet(0, Lit("zh:models:") \o mdEscape(Join(e.models.v, Lit("zh:,"))))>>)
  \o If(e.key_fields.has /\ Len(e.key_fields.v) > 0,
        <<Bullet(0, Lit("zh:key-fields") \o Count(Len(e.key_fields.v)))>>
        \o [i \in 1..Len(e.key_fields.v) |-> keyFieldLine(e.key_fields.v[i])])
  \o If(e.statuses.has /\ Len(e.statuses.v) > 0,
        <<Bullet(0, Lit("zh:states") \o Count(Len(e.statuses.v)))>>
        \o [i \in 1..Len(e.statuses.v) |-> statusLine(e.statuses.v[i])])

dataModelLines(m) ==
  <<Title(3, mdEscape(m.name) \o Paren(mdEscape(m.table))),
    Bullet(0, Lit("zh:desc:") \o mdEscape(m.description))>>
  \o If(Truthy(m.entity), <<Bullet(0, Lit("zh:entity:") \o mdEscape(m.entity.v))>>)
  \o If(m.source.has /\ m.source.v.file # <<>>,
        <<Bullet(0, Lit("zh:source:") \o mdCode(m.source.v.file))>>)
  \o If(Len(m.fields) > 0,
        <<Bullet(0, Lit("zh:fields") \o Count(Len(m.fields)))>>
        \o [i \in 1..Len(m.fields) |->
              Bullet(1, mdCode(m.fields[i].name \o <<":", " ">> \o m.fields[i].type)
                        \o <<" ", "-", " ">> \o mdEscape(m.fields[i].label))])

topSection_SkipEmpty(label, n) == If(n > 0, <<Title(2, label \o Count(n))>>)

\* pushTitle(lines, 2, label + count): the heading of a top-level collection.
topSection(label, n) == <<Title(2, label \o Count(n))>>

\* The header and the Modules section: everything before manifest.entities
\* is read.
mindmapHead(manifest) ==
  LET p == manifest.project
  IN <<Title(1, Lit("zh:project:") \o mdEscape(p.name) \o Paren(mdEscape(p.id))
                \o <<" ", "v">> \o mdEscape(p.version)),
       Bullet(0, Lit("zh:project-desc:") \o mdEscape(p.description)),
       Bullet(0, Lit("zh:updated:") \o mdEscape(p.updated_at))>>
     \o topSection(Lit("zh:modules"), Len(manifest.modules))
     \o Flatten([i \in 1..Len(manifest.modules) |-> moduleToMarkdown(manifest.modules[i])])

\* From the Entities section on; manifest.entities is present.
mindmapTail(manifest) ==
  LET es == manifest.entities.v
      dms == manifest.data_models
      g == manifest.glossary
      cl == manifest.changelog
  IN topSection(Lit("zh:entities"), Len(es))
     \o Flatten([i \in 1..Len(es) |-> entityLines(es[i])])
     \o topSection(Lit("zh:data-models"), Len(dms))
     \o Flatten([i \in 1..Len(dms) |-> dataModelLines(dms[i])])
     \o topSection(Lit("zh:glossary"), Len(g))
     \o [i \in 1..Len(g) |->
           Bullet(0, mdEscape(g[i].key) \o Paren(mdEscape(g[i].term)) \o Lit("zh::")
                     \o mdEscape(g[i].description))]
     \o topSection(Lit("zh:changelog"), Len(cl))
     \o [i \in 1..Len(cl) |->
           Bullet(0, mdEscape(cl[i].date) \o <<" ", "/", " ">> \o mdEscape(cl[i].type)
                     \o Lit("zh::") \o mdEscape(cl[i].summary))]

\* manifest.entities.length throws a TypeError when the manifest has no
\* entities list; the lines pushed so far are lost with the call.
generateMindmapMarkdown(manifest) ==
  IF ~manifest.entities.has
  THEN Threw
  ELSE Ok(newLines \o mindmapHead(manifest) \o mindmapTail(manifest))

\* ------------------------------------------------------------- the inputs
SeqsUpTo(S, n) == UNION {[1..k -> S] : k \in 0..n}

\* Free text of a manifest author: quotes, line breaks, backslashes,
\* brackets, HTML and code-span characters all occur.
Hazard == <<"a", "\"", "\n", "\\", "[", "]">>
HazardMd == <<" ", "[", "x", "]", "&", "<", "\n", "\r", "y">>
HazardPath == <<"s", "r", "c", "/", "[", "i", "d", "]", "\n", "#", "U+0060">>

NoCodeRef == None
FileRef == Some([file |-> <<"a", ".", "t", "s">>, function |-> None, line |-> None])
FullRef == Some([file |-> <<"a", "\"", ".", "t", "s">>, function |-> Some(<<"f", "n">>),
                 line |-> Some(12)])
HazardRef == Some([file |-> HazardPath, function |-> Some(<<>>), line |-> None])
EmptyFileRef == Some([file |-> <<>>, function |-> None, line |-> None])
LineZeroRef == Some([file |-> <<>>, function |-> None, line |-> Some(0)])

\* Flows whose steps vary in order: every array order of up to MaxSteps
\* steps with orders 1..MaxOrder, equal orders included.
OrderedStepPool ==
  [id : {<<"s">>}, order : 1..MaxOrder,
   name : {<<"p", "a", "y">>, <<"c", "r", "e", "a", "t", "e">>},
   description : {None}, rules : {None}]

\* Steps whose texts and rule references vary.
TextStepPool ==
  [id : {<<"s">>}, order : {1}, name : {<<"n", "\"">>},
   description : {None, Some(<<>>), Some(Hazard)},
   rules : {None, Some(<<>>),
            Some(<<<<"r", "1">>, <<"r", "2">>, <<"z", "\"">>, <<>>, <<"r", "1">>>>)}]

FlowRulePool ==
  {<<>>,
   <<[id |-> <<"r", "1">>, name |-> <<"R", "\n">>, description |-> <<"d">>,
      priority |-> "high", category |-> None, code_ref |-> NoCodeRef],
     [id |-> <<"r", "2">>, name |-> <<"R", "\n">>, description |-> <<>>,
      priority |-> "low", category |-> Some(HazardMd), code_ref |-> HazardRef]>>}

\* Rules of which two have the same id, and one has an empty name.
DuplicateRules ==
  <<[id |-> <<"r", "1">>, name |-> <<"A">>, description |-> <<"d">>,
     priority |-> "high", category |-> None, code_ref |-> NoCodeRef],
    [id |-> <<"r", "1">>, name |-> <<"B">>, description |-> <<"d">>,
     priority |-> "medium", category |-> None, code_ref |-> NoCodeRef],
    [id |-> <<"r", "2">>, name |-> <<>>, description |-> <<"d">>,
     priority |-> "low", category |-> None, code_ref |-> NoCodeRef]>>

FlowInputs ==
  {[flow |-> [id |-> <<"f", "1">>, name |-> <<"F">>, description |-> None,
              trigger |-> t, steps |-> ss, code_ref |-> NoCodeRef],
    rules |-> <<>>] :
     t \in {None, Some(<<"t">>)}, ss \in SeqsUpTo(OrderedStepPool, MaxSteps)}
  \cup
  {[flow |-> [id |-> <<"f", "2">>, name |-> Hazard, description |-> None,
              trigger |-> t, steps |-> ss, code_ref |-> c],
    rules |-> rs] :
     t \in {None, Some(<<>>), Some(Hazard)}, ss \in SeqsUpTo(TextStepPool, 1),
     c \in {NoCodeRef, FileRef, FullRef, EmptyFileRef, HazardRef, LineZeroRef},
     rs \in FlowRulePool \cup {DuplicateRules}}

\* State machines: state ids repeat and may be empty, transitions refer to
\* declared and to undeclared ids.
StatePool ==
  {[id |-> x[1], name |-> <<"N", "\"">>, description |-> None,
    is_initial |-> x[2], is_final |-> x[3]] :
     x \in {<<<<"a">>, None, None>>, <<<<"a">>, Some(TRUE), None>>,
            <<<<"b">>, None, None>>, <<<<"b">>, Some(TRUE), Some(TRUE)>>,
            <<<<>>, None, None>>, <<<<"b">>, Some(FALSE), Some(TRUE)>>}}

TransitionPool ==
  {[from |-> <<"a">>, to |-> <<"b">>, trigger |-> <<>>, description |-> None],
   [from |-> <<"a">>, to |-> <<>>, trigger |-> <<"g", "o">>, description |-> None],
   [from |-> <<"1">>, to |-> <<"b">>, trigger |-> <<"g", "\"", "\n", "x">>,
    description |-> Some(HazardMd)],
   [from |-> <<"z", "-">>, to |-> <<"1">>, trigger |-> <<"t">>, description |-> None]}

StateMachineInputs ==
  {[id |-> <<"m">>, name |-> <<"S", "\"">>, description |-> None,
    entity |-> <<"o", "r", "d", "e", "r">>, field |-> <<"s", "t">>,
    states |-> st, transitions |-> tr] :
     st \in SeqsUpTo(StatePool, MaxStates), tr \in SeqsUpTo(TransitionPool, MaxTransitions)}

\* Modules of the dependency graph: ids repeat, dependencies repeat, are
\* empty, name modules of the manifest and modules outside it.
DependencyPool ==
  {None, Some(<<>>), Some(<<<<>>>>), Some(<<<<"b">>>>), Some(<<<<"c">>, <<"c">>>>),
   Some(<<<<"b">>, <<>>, <<"c", "\"">>, <<"b">>>>)}

GraphModulePool ==
  {[id |-> i, name |-> <<"M", "\"", "\n">>, description |-> <<>>, tags |-> None,
    dependencies |-> d, code_refs |-> None, flows |-> <<>>, rules |-> <<>>,
    state_machines |-> <<>>, pseudocodes |-> <<>>] :
     i \in {<<"a">>, <<"b">>}, d \in DependencyPool}

Project ==
  [id |-> <<"p", "1">>, name |-> HazardMd, description |-> <<"d">>,
   version |-> <<"1", ".", "0">>, updated_at |-> <<"2", "0", "2", "6">>]

\* Modules whose ids differ only in characters the sanitizer replaces, start
\* with a digit, are empty, or hold the prefix of the other namespace; their
\* dependencies name such ids too.
NamespaceIds ==
  {<<"a", "_", "b">>, <<"a", "-", "b">>, <<"a", ".", "b">>, <<"1", "a">>, <<"_", "1", "a">>,
   <<"e", "x", "t", "_", "c">>, <<"m", "o", "d", "_", "c">>, <<>>}

NamespaceDependencies ==
  {None, Some(<<<<"a", ".", "b">>, <<"m", "o", "d", "_", "c">>, <<"e", "x", "t", "_", "c">>,
                <<"c">>, <<"1", "a">>>>)}

NamespaceModulePool ==
  {[id |-> i, name |-> <<"M">>, description |-> <<>>, tags |-> None,
    dependencies |-> d, code_refs |-> None, flows |-> <<>>, rules |-> <<>>,
    state_machines |-> <<>>, pseudocodes |-> <<>>] :
     i \in NamespaceIds, d \in NamespaceDependencies}

GraphInputs ==
  {[project |-> Project, modules |-> ms, data_models |-> <<>>, entities |-> None,
    glossary |-> <<>>, changelog |-> <<>>] :
     ms \in SeqsUpTo(GraphModulePool, MaxModules) \cup SeqsUpTo(NamespaceModulePool, MaxModules)}

\* Manifests of the outline: every collection is empty or not, the entities
\* list is absent, empty or not.
MindFlow ==
  [id |-> <<"f">>, name |-> HazardMd, description |-> Some(<<"d">>),
   trigger |-> Some(<<"t", "&">>),
   steps |-> <<[id |-> <<"s", "2">>, order |-> 2, name |-> <<"p", "a", "y">>,
                description |-> Some(<<"&">>), rules |-> Some(<<<<"r", "&">>, <<"q">>>>)],
               [id |-> <<"s", "1">>, order |-> 1, name |-> <<"c", "r", "e", "a", "t", "e">>,
                description |-> None, rules |-> None]>>,
   code_ref |-> FullRef]
EmptyFlow ==
  [id |-> <<"e">>, name |-> <<"E">>, description |-> None, trigger |-> None,
   steps |-> <<>>, code_ref |-> NoCodeRef]
MindRule == FlowRulePool
MindStateMachine ==
  [id |-> <<"m">>, name |-> <<"S">>, description |-> Some(<<"d">>),
   entity |-> <<"o">>, field |-> <<"s", "t">>,
   states |-> <<[id |-> <<"a">>, name |-> <<"A", "[">>, description |-> None,
                 is_initial |-> Some(TRUE), is_final |-> None],
                [id |-> <<"b">>, name |-> <<"B">>, description |-> None,
                 is_initial |-> None, is_final |-> Some(TRUE)]>>,
   transitions |-> <<[from |-> <<"a">>, to |-> <<"b">>, trigger |-> <<"g", "\n">>,
                      description |-> Some(<<"d">>)]>>]
EmptyStateMachine ==
  [id |-> <<"n">>, name |-> <<"Z">>, description |-> None, entity |-> <<"o">>,
   field |-> <<"f">>, states |-> <<>>, transitions |-> <<>>]
MindPseudocode ==
  [id |-> <<"p">>, name |-> <<"r", "u", "n">>, description |-> None,
   params |-> Some(<<<<"a", "[", "]">>, <<"b">>>>), returns |-> Some(<<"o", "k">>),
   steps |-> <<[indent |-> 0, text |-> <<"i", "f">>, type |-> "condition"],
               [indent |-> 9, text |-> <<"g", "o">>, type |-> "action"]>>,
   calls |-> <<>>, code_ref |-> FileRef]
QuotedPseudocode ==
  [id |-> <<"q">>, name |-> <<"U+0060", "q">>, description |-> Some(<<"d">>),
   params |-> None, returns |-> None, steps |-> <<>>, calls |-> <<>>,
   code_ref |-> NoCodeRef]

MindModulePool ==
  {[id |-> <<"o", "r", "d", "e", "r">>, name |-> <<"O">>, description |-> x.d,
    tags |-> x.t, dependencies |-> x.t, code_refs |-> x.c,
    flows |-> fs, rules |-> rs, state_machines |-> sms, pseudocodes |-> pcs] :
     x \in {[d |-> <<>>, t |-> None, c |-> None],
            [d |-> <<"d">>, t |-> Some(<<<<"a">>, <<"b", "]">>>>),
             c |-> Some(<<FileRef.v, EmptyFileRef.v>>)]},
     fs \in {<<>>, <<MindFlow>>, <<EmptyFlow, MindFlow>>},
     rs \in MindRule,
     sms \in {<<>>, <<MindStateMachine, EmptyStateMachine>>},
     pcs \in {<<>>, <<MindPseudocode, QuotedPseudocode>>}}

MindEntity ==
  [id |-> <<"e">>, name |-> <<"E">>, description |-> None, models |-> Some(<<<<"m">>>>),
   key_fields |-> Some(<<[name |-> <<"k">>, label |-> <<"K">>, description |-> <<"d">>,
                         source |-> Some(<<"s">>)]>>),
   statuses |-> Some(<<[label |-> <<"L">>, value |-> <<"v">>, description |-> None]>>)]
MindDataModel ==
  [id |-> <<"d">>, name |-> <<"D">>, table |-> <<"t">>, description |-> <<"d">>,
   entity |-> Some(<<"e">>), source |-> Some([file |-> <<"m", ".", "y", "a", "o">>]),
   fields |-> <<[name |-> <<"i", "d">>, type |-> <<"i", "n", "t">>, label |-> <<"I">>]>>]
MindGlossary == <<[key |-> <<"k">>, term |-> <<"T">>, description |-> <<"d">>]>>
MindChangelog == <<[date |-> <<"2", "0", "2", "6">>, type |-> <<"a", "d", "d">>,
                    summary |-> <<"s">>]>>

\* The modules whose four collections are all empty or all non-empty.
ExtremeModulePool ==
  {m \in MindModulePool :
     \/ m.flows = <<>> /\ m.rules = <<>> /\ m.state_machines = <<>> /\ m.pseudocodes = <<>>
     \/ Len(m.flows) = 2 /\ m.rules # <<>> /\ m.state_machines # <<>> /\ m.pseudocodes # <<>>}

MindInputs ==
  {[project |-> Project, modules |-> ms, data_models |-> dms, entities |-> es,
    glossary |-> g, changelog |-> cl] :
     ms \in SeqsUpTo(MindModulePool, 1) \cup [1..2 -> ExtremeModulePool],
     dms \in {<<>>, <<MindDataModel>>},
     es \in {None, Some(<<>>), Some(<<MindEntity>>)},
     g \in {<<>>, MindGlossary},
     cl \in {<<>>, MindChangelog}}

\* The arguments of safeNodeId: the prefixes of its call sites, and raw ids
\* with letters, digits, '_' and characters outside the class.
NodeIdPrefixes == {<<"m", "o", "d", "_">>, <<"e", "x", "t", "_">>, <<"S">>}
RawChars == {"a", "Z", "7", "_", "-", "U+4E2D"}
SafeNodeIdInputs ==
  {[prefix |-> p, raw |-> r] : p \in NodeIdPrefixes, r \in SeqsUpTo(RawChars, MaxRawLen)}

\* The texts given to escapeLabel and escapeMindmapText: every reserved
\* character of the two dialects next to a plain one.
TextChars == {"a", "\\", "\"", "\n", "(", ")", "[", "]"}
TextInputs == SeqsUpTo(TextChars, MaxTextLen)

\* The lists given to uniqueStrings: empty and repeated entries occur.
ListEntries == {<<>>, <<"a">>, <<"b">>}
ListInputs == SeqsUpTo(ListEntries, MaxListLen)

\* ------------------------------------------------ the input after a call
stepsAfterSort_InPlace(steps) == sortSteps(steps)

\* [...flow.steps].sort(...) and f.steps.slice().sort(...): the sort reorders
\* a copy, the steps array of the flow keeps its elements and their order.
stepsAfterSort(steps) == steps

flowAfterCall(flow) == [flow EXCEPT !.steps = stepsAfterSort(flow.steps)]

\* generateMindmapMarkdown sorts the steps of every flow of every module.
moduleAfterCall(m) ==
  [m EXCEPT !.flows = [k \in 1..Len(m.flows) |-> flowAfterCall(m.flows[k])]]

manifestAfterCall(manifest) ==
  [manifest EXCEPT !.modules =
     [i \in 1..Len(manifest.modules) |-> moduleAfterCall(manifest.modules[i])]]

\* ------------------------------------------- fetchManifest (manifestClient.ts)
\* The module ids an index may list, and the index lists tried: every list
\* of distinct ids of at most MaxIndexModules entries.
ModuleIds == {"a", "b", "c"}

IndexLists ==
  {ids \in SeqsUpTo(ModuleIds, MaxIndexModules) :
     \A i, j \in 1..Len(ids) : i /= j => ids[i] /= ids[j]}

\* What <projectId>/<file> holds: a modular index (its module id list, and
\* whether it names a data-models file) or a single-file manifest (whose
\* modules are inline; the model names them by id).
ModularIndex(ids, ref) ==
  [structure |-> "modular", modules |-> ids, data_models_ref |-> ref]

MonolithicManifest ==
  [structure |-> "single", modules |-> <<"m">>, data_models_ref |-> FALSE]

ManifestFiles ==
  {ModularIndex(ids, ref) : ids \in IndexLists, ref \in BOOLEAN}
    \cup {MonolithicManifest}

\* modules/<moduleId>.json and the data-models file, as fetched.
ModuleFile(moduleId) == [id |-> moduleId]

DataModelsFile == <<[name |-> "Order"]>>

\* Promise.all(modulePromises): one entry per index position, whatever
\* order the fetches completed in; a fetch that failed gave null.
modulePromises(l) ==
  [i \in 1..Len(l.file.modules) |->
     IF l.fetched[i] = "ok" THEN Some(ModuleFile(l.file.modules[i])) ELSE None]

RECURSIVE NotNull(_)
NotNull(settled) ==
  IF settled = <<>> THEN <<>>
  ELSE (IF Head(settled).has THEN <<Head(settled).v>> ELSE <<>>)
         \o NotNull(Tail(settled))

\* The modules in the order their fetches completed.
loadedModules_ByCompletion(l) ==
  NotNull([k \in 1..Len(l.completed) |-> modulePromises(l)[l.completed[k]]])

\* (await Promise.all(modulePromises)).filter(m => m !== null)
loadedModules(l) == NotNull(modulePromises(l))

\* A fetchManifest call that has issued the fetch of <file>.
LoadStarted(file) ==
  [phase |-> "index", file |-> file, fetched |-> <<>>, completed |-> <<>>,
   modules |-> <<>>, data_models |-> <<>>, dataModelsFetch |-> "none",
   result |-> None, error |-> "none"]

LoadIdle == load = [LoadStarted(MonolithicManifest) EXCEPT !.phase = "idle"]

\* fetchJson of the index throws (network error, status not ok, bad JSON):
\* nothing catches it, fetchManifest rejects.
IndexFetchFails ==
  /\ load.phase = "index"
  /\ load' = [load EXCEPT !.phase = "failed", !.error = "index"]
  /\ UNCHANGED <<emitterVars, indexerVars, overviewVars, shellVars>>

\* The index arrives.  A single-file manifest is returned as it is; for a
\* modular index every module fetch is issued at once.
IndexFetched ==
  /\ load.phase = "index"
  /\ load' = IF load.file.structure = "modular"
             THEN [load EXCEPT !.phase = "modules",
                               !.fetched = [i \in 1..Len(load.file.modules) |-> "pending"]]
             ELSE [load EXCEPT !.phase = "returned", !.result = Some(load.file)]
  /\ UNCHANGED <<emitterVars, indexerVars, overviewVars, shellVars>>

\* One module fetch completes, in any order, with the module or with a
\* failure that the map callback catches.
ModuleFetched ==
  /\ load.phase = "modules"
  /\ \E i \in 1..Len(load.fetched), outcome \in {"ok", "failed"} :
       /\ load.fetched[i] = "pending"
       /\ load' = [load EXCEPT !.fetched[i] = outcome,
                               !.completed = Append(@, i)]
  /\ UNCHANGED <<emitterVars, indexerVars, overviewVars, shellVars>>

\* The manifest assembled from the parts (the index's own fields left out).
ManifestOf(modules, data_models) ==
  [structure |-> "assembled", modules |-> modules, data_models |-> data_models]

\* Promise.all resolves once every module fetch has settled; the data
\* models are fetched next if the index names them, else the manifest is
\* returned with the initial empty list.
ModulesSettled ==
  /\ load.phase = "modules"
  /\ \A i \in 1..Len(load.fetched) : load.fetched[i] /= "pending"
  /\ LET modules == loadedModules(load) IN
       load' = IF load.file.data_models_ref
               THEN [load EXCEPT !.phase = "data_models", !.modules = modules,
                                 !.dataModelsFetch = "pending"]
               ELSE [load EXCEPT !.phase = "returned", !.modules = modules,
                                 !.result = Some(ManifestOf(modules, <<>>))]
  /\ UNCHANGED <<emitterVars, indexerVars, overviewVars, shellVars>>

\* The data-models fetch completes; a failure is caught and leaves [].
DataModelsFetched ==
  /\ load.phase = "data_models"
  /\ \E outcome \in {"ok", "failed"} :
       LET data_models == IF outcome = "ok" THEN DataModelsFile ELSE <<>> IN
         load' = [load EXCEPT !.phase = "returned", !.dataModelsFetch = outcome,
                              !.data_models = data_models,
                              !.result = Some(ManifestOf(load.modules, data_models))]
  /\ UNCHANGED <<emitterVars, indexerVars, overviewVars, shellVars>>

LoadNext ==
  \/ IndexFetchFails
  \/ IndexFetched
  \/ ModuleFetched
  \/ ModulesSettled
  \/ DataModelsFetched

\* ------------------------------------------------ the indexer (deploy/indexer.mjs)
\* The project directories under the manifests root, as readdir + sort
\* gives them.
AllProjectDirs == <<"a", "b", "c">>

projectDirs == SubSeq(AllProjectDirs, 1, Min(MaxProjects, Len(AllProjectDirs)))

\* A path is the sequence of its parts; filePath + ".tmp" appends one.
IndexJson(projectId) == <<projectId, "index.json">>

ProjectsJson == <<"projects.json">>

TargetPaths == {IndexJson(projectDirs[i]) : i \in 1..Len(projectDirs)} \cup {ProjectsJson}

\* A run that writes straight into the target.
tmpPath_InPlace(filePath) == filePath

\* const tmp = filePath + ".tmp"
tmpPath(filePath) == Append(filePath, ".tmp")

Paths == TargetPaths \cup {tmpPath(p) : p \in TargetPaths}

\* A file's content: who wrote it and how many of the FileChunks pieces of
\* the JSON text are in it so far.
Content(by, chunks) == [by |-> by, chunks |-> chunks]

Complete(content) == content.chunks = FileChunks

\* The disk is a directory (path -> inode number, 0 when absent) and the
\* inodes' contents; a rename moves the directory entry, an open file keeps
\* its inode.
Inode(d, path) == d.inodes[d.names[path]]

\* fs.writeFile opens with O_CREAT | O_TRUNC: an existing file is emptied in
\* place, a missing one gets a fresh inode.
openTruncate(d, path) ==
  IF d.names[path] = 0
  THEN [names |-> [d.names EXCEPT ![path] = Len(d.inodes) + 1],
        inodes |-> Append(d.inodes, Content("run", 0))]
  ELSE [d EXCEPT !.inodes[d.names[path]] = Content("run", 0)]

\* One write(2) of the text.
writeChunk(d, path) == [d EXCEPT !.inodes[d.names[path]].chunks = @ + 1]

\* fs.rename(tmp, filePath); renaming a path onto itself does nothing.
rename(d, from, to) ==
  IF from = to THEN d
  ELSE [d EXCEPT !.names[to] = d.names[from], !.names[from] = 0]

\* The file the run is at: the i-th project's index.json, and projects.json
\* after the loop.
filePathAt(i) ==
  IF i <= Len(projectDirs) THEN IndexJson(projectDirs[i]) ELSE ProjectsJson

IndexerStart == [pc |-> "collect", i |-> 1, renamed |-> <<>>]

ReaderStart == [pc |-> "idle", path |-> ProjectsJson, inode |-> 0, seen |-> "none"]

IndexerIdle ==
  /\ disk = [names |-> [p \in Paths |-> 0], inodes |-> <<>>]
  /\ indexer = [IndexerStart EXCEPT !.pc = "idle"]
  /\ reader = ReaderStart

\* The loop body up to the write: the directory is listed and the version
\* files are read (nothing is written); after the last project the run goes
\* on to projects.json.
CollectEntries ==
  /\ indexer.pc = "collect"
  /\ indexer' = [indexer EXCEPT !.pc = "open"]
  /\ UNCHANGED <<disk, reader, emitterVars, loadVars, overviewVars, shellVars>>

\* readdir of a project directory throws (it was removed meanwhile): main
\* rejects and the process exits.
CollectFails ==
  /\ indexer.pc = "collect"
  /\ indexer.i <= Len(projectDirs)
  /\ indexer' = [indexer EXCEPT !.pc = "failed"]
  /\ UNCHANGED <<disk, reader, emitterVars, loadVars, overviewVars, shellVars>>

\* writeJsonAtomic, first half: writeFile opens the temporary file ...
WriteFileOpen ==
  /\ indexer.pc = "open"
  /\ disk' = openTruncate(disk, tmpPath(filePathAt(indexer.i)))
  /\ indexer' = [indexer EXCEPT !.pc = "write"]
  /\ UNCHANGED <<reader, emitterVars, loadVars, overviewVars, shellVars>>

\* ... and writes the text, piece by piece.
WriteFileChunk ==
  /\ indexer.pc = "write"
  /\ ~Complete(Inode(disk, tmpPath(filePathAt(indexer.i))))
  /\ disk' = writeChunk(disk, tmpPath(filePathAt(indexer.i)))
  /\ UNCHANGED <<indexer, reader, emitterVars, loadVars, overviewVars, shellVars>>

\* writeJsonAtomic, second half: once writeFile has resolved, the temporary
\* file is renamed over the target; the loop goes on, and the run ends
\* after projects.json.
Rename ==
  /\ indexer.pc = "write"
  /\ Complete(Inode(disk, tmpPath(filePathAt(indexer.i))))
  /\ disk' = rename(disk, tmpPath(filePathAt(indexer.i)), filePathAt(indexer.i))
  /\ indexer' = [pc |-> IF indexer.i > Len(projectDirs) THEN "done" ELSE "collect",
                 i |-> indexer.i + 1,
                 renamed |-> Append(indexer.renamed, filePathAt(indexer.i))]
  /\ UNCHANGED <<reader, emitterVars, loadVars, overviewVars, shellVars>>

\* The static server gets a request for one of the files: 404 when it does
\* not exist, else createReadStream opens it.
Serve ==
  /\ reader.pc \in {"idle", "done"}
  /\ \E path \in TargetPaths :
       reader' = IF disk.names[path] = 0
                 THEN [pc |-> "done", path |-> path, inode |-> 0, seen |-> "absent"]
                 ELSE [pc |-> "open", path |-> path, inode |-> disk.names[path],
                       seen |-> "none"]
  /\ UNCHANGED <<disk, indexer, emitterVars, loadVars, overviewVars, shellVars>>

\* The stream reads the open file to its end: what the inode holds now.
ReadToEnd ==
  /\ reader.pc = "open"
  /\ reader' = [reader EXCEPT !.pc = "done",
                              !.seen = IF Complete(disk.inodes[reader.inode])
                                       THEN disk.inodes[reader.inode].by
                                       ELSE "partial"]
  /\ UNCHANGED <<disk, indexer, emitterVars, loadVars, overviewVars, shellVars>>

IndexerNext ==
  \/ CollectEntries
  \/ CollectFails
  \/ WriteFileOpen
  \/ WriteFileChunk
  \/ Rename
  \/ Serve
  \/ ReadToEnd

\* ------------------------------------------------------ OverviewView (App.tsx)
\* A flow or state machine of a module: its id, and a name that tells the
\* entries of different modules apart when their ids are equal.
Entry(id, name) == [id |-> id, name |-> name]

OverviewModule(id, flows, state_machines, rules) ==
  [id |-> id, flows |-> flows, state_machines |-> state_machines, rules |-> rules]

\* The manifests the view is given: ids shared between modules, a module
\* without flows, one without state machines, two modules with one id, and
\* a manifest without modules.
OverviewManifests ==
  { <<OverviewModule("a", <<Entry("f1", "a.f1"), Entry("f2", "a.f2")>>,
                     <<Entry("s1", "a.s1")>>, <<"ra">>),
      OverviewModule("b", <<Entry("f2", "b.f2"), Entry("f3", "b.f3")>>,
                     <<Entry("s2", "b.s2"), Entry("s1", "b.s1")>>, <<"rb">>)>>,
    <<OverviewModule("b", <<Entry("f3", "b.f3")>>, <<>>, <<"rb2">>),
      OverviewModule("c", <<>>, <<Entry("s3", "c.s3")>>, <<>>)>>,
    <<OverviewModule("c", <<Entry("f1", "c.f1")>>, <<Entry("s1", "c.s1")>>, <<"rc">>),
      OverviewModule("c", <<Entry("f2", "c2.f2")>>, <<Entry("s2", "c2.s2")>>, <<"rc2">>)>>,
    <<>> }

\* list.find(x => x.id === id)
FindById(list, id) ==
  IF \E i \in 1..Len(list) : list[i].id = id
  THEN Some(list[CHOOSE i \in 1..Len(list) :
                   list[i].id = id /\ \A j \in 1..(i - 1) : list[j].id /= id])
  ELSE None

\* list[0], undefined for an empty list
First(list) == IF list = <<>> THEN None ELSE Some(list[1])

\* x ?? y
OrElse(x, y) == IF x.has THEN x ELSE y

\* list[0]?.id ?? ''
FirstId(list) == IF list = <<>> THEN "" ELSE list[1].id

\* manifest.modules.find(m => m.id === moduleId) ?? manifest.modules[0]
activeModule(o) == OrElse(FindById(o.manifest, o.moduleId), First(o.manifest))

\* The flow with the selected id, looked up in every module.
activeFlow_AnyModule(o) ==
  LET all == Flatten([i \in 1..Len(o.manifest) |-> o.manifest[i].flows])
  IN OrElse(FindById(all, o.flowId), First(all))

\* activeModule?.flows.find(f => f.id === flowId) ?? activeModule?.flows[0]
activeFlow(o) ==
  IF ~activeModule(o).has THEN None
  ELSE OrElse(FindById(activeModule(o).v.flows, o.flowId),
              First(activeModule(o).v.flows))

\* activeModule?.state_machines.find(sm => sm.id === smId)
\*   ?? activeModule?.state_machines[0]
activeSm(o) ==
  IF ~activeModule(o).has THEN None
  ELSE OrElse(FindById(activeModule(o).v.state_machines, o.smId),
              First(activeModule(o).v.state_machines))

\* codeByTab.flow: the arguments of generateFlowchartForFlow, or none when
\* the placeholder chart is shown instead.
flowchartArguments(o) ==
  IF ~activeModule(o).has THEN None
  ELSE IF ~activeFlow(o).has THEN None
  ELSE Some([flow |-> activeFlow(o).v, rules |-> activeModule(o).v.rules])

\* codeByTab.state: the argument of generateStateDiagram, or none.
stateDiagramArgument(o) ==
  IF ~activeModule(o).has THEN None
  ELSE IF ~activeSm(o).has THEN None
  ELSE Some(activeSm(o).v)

\* The useState initializers of a mount, in the order they run.
Mounted(manifest) ==
  LET moduleId == FirstId(manifest)
      first == OrElse(FindById(manifest, moduleId), First(manifest))
  IN [manifest |-> manifest, tab |-> "mindmap", moduleId |-> moduleId,
      flowId |-> IF first.has THEN FirstId(first.v.flows) ELSE "",
      smId |-> IF first.has THEN FirstId(first.v.state_machines) ELSE ""]

OverviewIdle == overview = Mounted(<<>>)

\* Tabs onChange
SetTab ==
  /\ \E k \in {"mindmap", "deps", "flow", "state"} :
       /\ k /= overview.tab
       /\ overview' = [overview EXCEPT !.tab = k]
  /\ UNCHANGED <<emitterVars, loadVars, indexerVars, shellVars>>

\* The module select (shown on the flow and state tabs): one option per
\* module, the option's value is the module id.
SelectModule ==
  /\ overview.tab \in {"flow", "state"}
  /\ \E i \in 1..Len(overview.manifest) :
       LET nextId == overview.manifest[i].id
           next == FindById(overview.manifest, nextId)
       IN overview' = [overview EXCEPT
            !.moduleId = nextId,
            !.flowId = IF next.has THEN FirstId(next.v.flows) ELSE "",
            !.smId = IF next.has THEN FirstId(next.v.state_machines) ELSE ""]
  /\ UNCHANGED <<emitterVars, loadVars, indexerVars, shellVars>>

\* The flow select (flow tab): one option per flow of the active module.
SelectFlow ==
  /\ overview.tab = "flow"
  /\ activeModule(overview).has
  /\ \E i \in 1..Len(activeModule(overview).v.flows) :
       overview' = [overview EXCEPT !.flowId = activeModule(overview).v.flows[i].id]
  /\ UNCHANGED <<emitterVars, loadVars, indexerVars, shellVars>>

\* The state-machine select (state tab).
SelectStateMachine ==
  /\ overview.tab = "state"
  /\ activeModule(overview).has
  /\ \E i \in 1..Len(activeModule(overview).v.state_machines) :
       overview' = [overview EXCEPT
                      !.smId = activeModule(overview).v.state_machines[i].id]
  /\ UNCHANGED <<emitterVars, loadVars, indexerVars, shellVars>>

\* App passes another manifest under the same key (same project id and
\* project version): the view stays mounted and keeps its selection state.
ManifestReplaced ==
  /\ \E manifest \in OverviewManifests :
       /\ manifest /= overview.manifest
       /\ overview' = [overview EXCEPT !.manifest = manifest]
  /\ UNCHANGED <<emitterVars, loadVars, indexerVars, shellVars>>

\* App passes a manifest under another key: the view is mounted anew.
Remounted ==
  /\ \E manifest \in OverviewManifests :
       /\ overview /= Mounted(manifest)
       /\ overview' = Mounted(manifest)
  /\ UNCHANGED <<emitterVars, loadVars, indexerVars, shellVars>>

OverviewNext ==
  \/ SetTab
  \/ SelectModule
  \/ SelectFlow
  \/ SelectStateMachine
  \/ ManifestReplaced
  \/ Remounted

\* ------------------------------------- fetchProjects, fetchVersions (manifestClient.ts)
\* What the static server holds: two projects, their commits, and the forms
\* of projects.json and <project>/index.json that the client accepts or
\* rejects.  generated_at is a number here, 0 when the entry has none (the
\* code compares the ISO strings, '' when missing).
ProjectIds == <<"A", "B">>

CommitsOf(projectId) == IF projectId = "A" THEN {"a1", "a2"} ELSE {"b1"}

ProjectsFiles ==
  { [kind |-> "strings", ids |-> ProjectIds],
    [kind |-> "objects", ids |-> ProjectIds],
    [kind |-> "other", ids |-> <<>>] }

VersionEntry(commit, generated_at) == [commit |-> commit, generated_at |-> generated_at]

IndexFiles(projectId) ==
  IF projectId = "A"
  THEN { [kind |-> "object-entries",
          versions |-> <<VersionEntry("a1", 1), VersionEntry("a2", 2)>>],
         [kind |-> "array-strings", versions |-> <<VersionEntry("a1", 0)>>],
         [kind |-> "object-other", versions |-> <<>>] }
  ELSE { [kind |-> "object-strings", versions |-> <<VersionEntry("b1", 0)>>],
         [kind |-> "other", versions |-> <<>>] }

\* fetchJson threw: the file is missing or the request failed.
FetchFailed == [kind |-> "failed", ids |-> <<>>, versions |-> <<>>]

\* fetchProjects: both accepted forms give one option per id.
fetchProjects(raw) ==
  IF raw.kind = "failed" THEN Threw
  ELSE IF raw.kind \in {"strings", "objects"}
  THEN Returned([i \in 1..Len(raw.ids) |-> [id |-> raw.ids[i]]])
  ELSE Threw

\* toOption (the label is derived from the other two fields and left out)
toOption(commit, generated_at) == [ref |-> commit, generated_at |-> generated_at]

LatestOption == [ref |-> "latest", generated_at |-> 0]

\* versions.sort((a, b) => b.generated_at.localeCompare(a.generated_at)):
\* stable, newest first.
RECURSIVE InsertNewestFirst(_, _)
InsertNewestFirst(sorted, x) ==
  IF sorted = <<>> THEN <<x>>
  ELSE IF Head(sorted).generated_at >= x.generated_at
  THEN <<Head(sorted)>> \o InsertNewestFirst(Tail(sorted), x)
  ELSE <<x>> \o sorted

RECURSIVE SortNewestFirst(_)
SortNewestFirst(versions) ==
  IF versions = <<>> THEN <<>>
  ELSE InsertNewestFirst(SortNewestFirst(SubSeq(versions, 1, Len(versions) - 1)),
                         versions[Len(versions)])

\* The versions read from the file, before the sort.
versionOptions(raw) ==
  [i \in 1..Len(raw.versions) |->
     toOption(raw.versions[i].commit,
              IF raw.kind = "object-entries" THEN raw.versions[i].generated_at ELSE 0)]

\* fetchVersions that returns the sorted versions alone.
fetchVersions_NoLatest(raw) ==
  IF raw.kind \in {"array-strings", "object-strings", "object-entries"}
  THEN Returned(SortNewestFirst(versionOptions(raw)))
  ELSE Threw

fetchVersions(raw) ==
  IF raw.kind \in {"array-strings", "object-strings", "object-entries"}
  THEN Returned(<<LatestOption>> \o SortNewestFirst(versionOptions(raw)))
  ELSE Threw

\* --------------------------------------------------------------- App (App.tsx)
\* The state of a mounted App after its first render.
AppStart ==
  [mounted |-> TRUE, projects |-> <<>>, projectId |-> "",
   versions |-> <<LatestOption>>, versionRef |-> "latest",
   manifest |-> None, loading |-> TRUE, error |-> ""]

\* The manifest fetchManifest resolves with, named by what was requested.
ManifestFor(projectId, ref) == <<projectId, ref>>

\* One run of an effect's async function: the closure's canceled flag and
\* the values it closed over.
Run(effect, projectId, ref, source, stage) ==
  [effect |-> effect, canceled |-> FALSE, projectId |-> projectId, ref |-> ref,
   source |-> source, stage |-> stage]

\* The cleanup of an effect: canceled = true in the run it belongs to.
Cleanup(rs, effect) ==
  {IF r.effect = effect THEN [r EXCEPT !.canceled = TRUE] ELSE r : r \in rs}

\* A run whose async function has not returned yet.
Pending(run) == run.stage \notin {"done", "dropped"}

Live(rs, effect) == \E r \in rs : r.effect = effect /\ ~r.canceled /\ Pending(r)

\* The async function returns: at an "if (canceled) return" when the run
\* was canceled, else after its writes.
Returns(rs, run) ==
  (rs \ {run}) \cup {[run EXCEPT !.stage = IF run.canceled THEN "dropped" ELSE "done"]}

\* The render after a state change from a0 to a1: an effect whose
\* dependencies changed is cleaned up and run again.  The version loader
\* depends on projectId, the manifest loader on projectId and versionRef;
\* the manifest loader sets loading and clears error before its fetch.
versionsEffectRuns(a0, a1) == a1.projectId /= a0.projectId

manifestEffectRuns(a0, a1) ==
  a1.projectId /= a0.projectId \/ a1.versionRef /= a0.versionRef

manifestFetchIssued(a0, a1) ==
  manifestEffectRuns(a0, a1) /\ a1.projectId /= "" /\ a1.versionRef /= ""

runsAfterRender(a0, a1, rs) ==
  LET afterVersions ==
        IF versionsEffectRuns(a0, a1)
        THEN Cleanup(rs, "versions")
               \cup (IF a1.projectId /= ""
                     THEN {Run("versions", a1.projectId, "", "", "await")} ELSE {})
        ELSE rs
  IN IF manifestEffectRuns(a0, a1)
     THEN Cleanup(afterVersions, "manifest")
            \cup (IF manifestFetchIssued(a0, a1)
                  THEN {Run("manifest", a1.projectId, a1.versionRef, "", "await")} ELSE {})
     ELSE afterVersions

appAfterRender(a0, a1) ==
  IF manifestFetchIssued(a0, a1)
  THEN [a1 EXCEPT !.loading = TRUE, !.error = ""]
  ELSE a1

requestedAfterRender(a0, a1, issued) ==
  IF manifestFetchIssued(a0, a1)
  THEN issued \cup {ManifestFor(a1.projectId, a1.versionRef)}
  ELSE issued

\* The project loader after its await.
projectsSettled(a, run, result) ==
  IF run.canceled THEN a
  ELSE IF ~result.threw
  THEN [a EXCEPT !.projects = result.value, !.projectId = FirstId(result.value),
                 !.loading = FALSE]
  ELSE [a EXCEPT !.error = "projects", !.loading = FALSE]

\* The version loader after its await.
versionsSettled(a, run, result) ==
  IF run.canceled THEN a
  ELSE IF ~result.threw
  THEN [a EXCEPT !.versions = result.value, !.versionRef = "latest"]
  ELSE [a EXCEPT !.versions = <<LatestOption>>, !.versionRef = "latest"]

\* A manifest loader that writes whether or not it was canceled.
manifestSettled_Unguarded(a, run, ok) ==
  IF ok
  THEN [a EXCEPT !.manifest = Some(ManifestFor(run.projectId, run.ref)), !.loading = FALSE]
  ELSE [a EXCEPT !.manifest = None, !.error = "manifest", !.loading = FALSE]

\* The manifest loader after its await.
manifestSettled(a, run, ok) ==
  IF run.canceled THEN a
  ELSE IF ok
  THEN [a EXCEPT !.manifest = Some(ManifestFor(run.projectId, run.ref)), !.loading = FALSE]
  ELSE [a EXCEPT !.manifest = None, !.error = "manifest", !.loading = FALSE]

\* The header with the two selects is rendered unless the loading screen or
\* the error screen is.
headerShown(a) ==
  /\ a.mounted
  /\ ~(a.loading /\ ~a.manifest.has /\ a.error = "")
  /\ ~(~a.manifest.has /\ a.error /= "")

\* The server has <project>/latest.json and one file per commit.
Served(projectId, ref) == ref = "latest" \/ ref \in CommitsOf(projectId)

\* fetchProjects settles: with a list in either form, or with an error.
ProjectsLoaded ==
  /\ \E run \in runs, raw \in ProjectsFiles \cup {FetchFailed} :
       /\ run.effect = "projects" /\ Pending(run)
       /\ LET a1 == projectsSettled(app, run, fetchProjects(raw)) IN
            /\ app' = appAfterRender(app, a1)
            /\ runs' = runsAfterRender(app, a1, Returns(runs, run))
            /\ requested' = requestedAfterRender(app, a1, requested)
  /\ UNCHANGED <<diagram, mindmap, mermaidInitialized, initializeCalls, events>>
  /\ UNCHANGED <<emitterVars, loadVars, indexerVars, overviewVars>>

\* fetchVersions settles.
VersionsLoaded ==
  /\ \E run \in runs :
       /\ run.effect = "versions" /\ Pending(run)
       /\ \E raw \in IndexFiles(run.projectId) \cup {FetchFailed} :
            LET a1 == versionsSettled(app, run, fetchVersions(raw)) IN
              /\ app' = appAfterRender(app, a1)
              /\ runs' = runsAfterRender(app, a1, Returns(runs, run))
              /\ requested' = requestedAfterRender(app, a1, requested)
  /\ UNCHANGED <<diagram, mindmap, mermaidInitialized, initializeCalls, events>>
  /\ UNCHANGED <<emitterVars, loadVars, indexerVars, overviewVars>>

\* fetchManifest settles: it can resolve only for a file the server has.
\* Without a manifest App renders the error screen instead of the overview,
\* so the diagram components unmount and their effects are cleaned up.
ManifestLoaded ==
  /\ \E run \in runs, ok \in BOOLEAN :
       /\ run.effect = "manifest" /\ Pending(run)
       /\ ok => Served(run.projectId, run.ref)
       /\ LET a1 == manifestSettled(app, run, ok)
              rs == runsAfterRender(app, a1, Returns(runs, run))
          IN /\ app' = appAfterRender(app, a1)
             /\ requested' = requestedAfterRender(app, a1, requested)
             /\ IF a1.manifest.has
                THEN runs' = rs /\ UNCHANGED <<diagram, mindmap>>
                ELSE /\ runs' = Cleanup(Cleanup(rs, "render"), "data")
                     /\ diagram' = [diagram EXCEPT !.mounted = FALSE]
                     /\ mindmap' = [mindmap EXCEPT !.mounted = FALSE]
  /\ UNCHANGED <<mermaidInitialized, initializeCalls, events>>
  /\ UNCHANGED <<emitterVars, loadVars, indexerVars, overviewVars>>

\* The project select: onChange={e => setProjectId(e.target.value)}
SelectProject ==
  /\ headerShown(app) /\ events < MaxEvents
  /\ \E i \in 1..Len(app.projects) :
       /\ app.projects[i].id /= app.projectId
       /\ LET a1 == [app EXCEPT !.projectId = app.projects[i].id] IN
            /\ app' = appAfterRender(app, a1)
            /\ runs' = runsAfterRender(app, a1, runs)
            /\ requested' = requestedAfterRender(app, a1, requested)
  /\ events' = events + 1
  /\ UNCHANGED <<diagram, mindmap, mermaidInitialized, initializeCalls>>
  /\ UNCHANGED <<emitterVars, loadVars, indexerVars, overviewVars>>

\* The version select: onChange={e => setVersionRef(e.target.value)}
SelectVersion ==
  /\ headerShown(app) /\ events < MaxEvents
  /\ \E i \in 1..Len(app.versions) :
       /\ app.versions[i].ref /= app.versionRef
       /\ LET a1 == [app EXCEPT !.versionRef = app.versions[i].ref] IN
            /\ app' = appAfterRender(app, a1)
            /\ runs' = runsAfterRender(app, a1, runs)
            /\ requested' = requestedAfterRender(app, a1, requested)
  /\ events' = events + 1
  /\ UNCHANGED <<diagram, mindmap, mermaidInitialized, initializeCalls>>
  /\ UNCHANGED <<emitterVars, loadVars, indexerVars, overviewVars>>

\* The page is left: every effect's cleanup runs, the components inside
\* App are unmounted with it.
UnmountApp ==
  /\ app.mounted /\ events < MaxEvents
  /\ app' = [app EXCEPT !.mounted = FALSE]
  /\ runs' = {[r EXCEPT !.canceled = TRUE] : r \in runs}
  /\ diagram' = [diagram EXCEPT !.mounted = FALSE]
  /\ mindmap' = [mindmap EXCEPT !.mounted = FALSE]
  /\ events' = events + 1
  /\ UNCHANGED <<requested, mermaidInitialized, initializeCalls>>
  /\ UNCHANGED <<emitterVars, loadVars, indexerVars, overviewVars>>

\* ------------------------------------------- MermaidDiagram (components/)
\* The diagram sources and outlines the components are given.
Codes == {"flowchart", "stateDiagram"}

Markdowns == {"outline", "outline2"}

\* A call that initializes the engine whatever the flag says.
ensureMermaidInit_Always(initialized, calls) == <<TRUE, calls + 1>>

\* ensureMermaidInit: the flag after the call, and how many times
\* mermaid.initialize has been called.
ensureMermaidInit(initialized, calls) ==
  IF initialized THEN <<initialized, calls>> ELSE <<TRUE, calls + 1>>

DiagramUnmounted == [mounted |-> FALSE, code |-> "", svg |-> "", error |-> ""]

\* The render effect up to its await: the engine is initialized if need
\* be, the error is cleared, mermaid.render is called.
renderEffect(d, code) == [d EXCEPT !.code = code, !.error = ""]

\* The render effect after its await.
renderSettled(d, run, ok) ==
  IF ok
  THEN (IF ~run.canceled THEN [d EXCEPT !.svg = run.source] ELSE d)
  ELSE (IF run.canceled THEN d ELSE [d EXCEPT !.svg = "", !.error = "render"])

\* The overview (rendered once there is a manifest) shows a diagram tab:
\* MermaidDiagram mounts with empty state and its effect runs.
MountDiagram ==
  /\ app.mounted /\ app.manifest.has /\ ~diagram.mounted /\ events < MaxEvents
  /\ \E code \in Codes :
       /\ diagram' = renderEffect([DiagramUnmounted EXCEPT !.mounted = TRUE], code)
       /\ runs' = runs \cup {Run("render", "", "", code, "await")}
  /\ mermaidInitialized' = ensureMermaidInit(mermaidInitialized, initializeCalls)[1]
  /\ initializeCalls' = ensureMermaidInit(mermaidInitialized, initializeCalls)[2]
  /\ events' = events + 1
  /\ UNCHANGED <<app, requested, mindmap>>
  /\ UNCHANGED <<emitterVars, loadVars, indexerVars, overviewVars>>

\* The code prop changes: the effect is cleaned up and runs again.
ChangeCode ==
  /\ diagram.mounted /\ events < MaxEvents
  /\ \E code \in Codes :
       /\ code /= diagram.code
       /\ diagram' = renderEffect(diagram, code)
       /\ runs' = Cleanup(runs, "render") \cup {Run("render", "", "", code, "await")}
  /\ mermaidInitialized' = ensureMermaidInit(mermaidInitialized, initializeCalls)[1]
  /\ initializeCalls' = ensureMermaidInit(mermaidInitialized, initializeCalls)[2]
  /\ events' = events + 1
  /\ UNCHANGED <<app, requested, mindmap>>
  /\ UNCHANGED <<emitterVars, loadVars, indexerVars, overviewVars>>

\* The tab is left, or the overview is mounted anew for another manifest:
\* the effect is cleaned up, the component is gone.
UnmountDiagram ==
  /\ diagram.mounted /\ events < MaxEvents
  /\ diagram' = [diagram EXCEPT !.mounted = FALSE]
  /\ runs' = Cleanup(runs, "render")
  /\ events' = events + 1
  /\ UNCHANGED <<app, requested, mindmap, mermaidInitialized, initializeCalls>>
  /\ UNCHANGED <<emitterVars, loadVars, indexerVars, overviewVars>>

\* mermaid.render settles, with the svg or with an error.
RenderSettled ==
  /\ \E run \in runs, ok \in BOOLEAN :
       /\ run.effect = "render" /\ Pending(run)
       /\ diagram' = renderSettled(diagram, run, ok)
       /\ runs' = Returns(runs, run)
  /\ UNCHANGED <<app, requested, mindmap, mermaidInitialized, initializeCalls, events>>
  /\ UNCHANGED <<emitterVars, loadVars, indexerVars, overviewVars>>

\* ------------------------------------------- MarkmapMindmap (components/)
MindmapUnmounted == [mounted |-> FALSE, markdown |-> "", error |-> ""]

\* The data effect up to its first await: the error is cleared and the
\* outline is transformed; a transform that throws is caught at once.
dataEffect(m, markdown, transformed) ==
  [m EXCEPT !.markdown = markdown,
            !.error = IF transformed THEN "" ELSE "transform"]

dataRuns(markdown, transformed) ==
  IF transformed THEN {Run("data", "", "", markdown, "setData")} ELSE {}

\* The data effect after one of its awaits: a failure is reported unless
\* the run was canceled, a success writes nothing.
dataSettled(m, run, ok) ==
  IF ok THEN m
  ELSE IF run.canceled THEN m
  ELSE [m EXCEPT !.error = run.stage]

\* After setData the run goes on to fit unless it was canceled or failed.
dataContinues(run, ok) == ok /\ ~run.canceled /\ run.stage = "setData"

\* The overview shows the mindmap tab.
MountMindmap ==
  /\ app.mounted /\ app.manifest.has /\ ~mindmap.mounted /\ events < MaxEvents
  /\ \E markdown \in Markdowns, transformed \in BOOLEAN :
       /\ mindmap' = dataEffect([MindmapUnmounted EXCEPT !.mounted = TRUE],
                                markdown, transformed)
       /\ runs' = runs \cup dataRuns(markdown, transformed)
  /\ events' = events + 1
  /\ UNCHANGED <<app, requested, diagram, mermaidInitialized, initializeCalls>>
  /\ UNCHANGED <<emitterVars, loadVars, indexerVars, overviewVars>>

ChangeMarkdown ==
  /\ mindmap.mounted /\ events < MaxEvents
  /\ \E markdown \in Markdowns, transformed \in BOOLEAN :
       /\ markdown /= mindmap.markdown
       /\ mindmap' = dataEffect(mindmap, markdown, transformed)
       /\ runs' = Cleanup(runs, "data") \cup dataRuns(markdown, transformed)
  /\ events' = events + 1
  /\ UNCHANGED <<app, requested, diagram, mermaidInitialized, initializeCalls>>
  /\ UNCHANGED <<emitterVars, loadVars, indexerVars, overviewVars>>

UnmountMindmap ==
  /\ mindmap.mounted /\ events < MaxEvents
  /\ mindmap' = [mindmap EXCEPT !.mounted = FALSE]
  /\ runs' = Cleanup(runs, "data")
  /\ events' = events + 1
  /\ UNCHANGED <<app, requested, diagram, mermaidInitialized, initializeCalls>>
  /\ UNCHANGED <<emitterVars, loadVars, indexerVars, overviewVars>>

\* mm.setData or mm.fit settles.
DataSettled ==
  /\ \E run \in runs, ok \in BOOLEAN :
       /\ run.effect = "data" /\ Pending(run)
       /\ mindmap' = dataSettled(mindmap, run, ok)
       /\ runs' = IF dataContinues(run, ok)
                  THEN (runs \ {run}) \cup {[run EXCEPT !.stage = "fit"]}
                  ELSE Returns(runs, run)
  /\ UNCHANGED <<app, requested, diagram, mermaidInitialized, initializeCalls, events>>
  /\ UNCHANGED <<emitterVars, loadVars, indexerVars, overviewVars>>

ShellIdle ==
  /\ app = [AppStart EXCEPT !.mounted = FALSE]
  /\ runs = {}
  /\ requested = {}
  /\ diagram = DiagramUnmounted
  /\ mindmap = MindmapUnmounted
  /\ mermaidInitialized = FALSE
  /\ initializeCalls = 0
  /\ events = 0

ShellNext ==
  \/ ProjectsLoaded
  \/ VersionsLoaded
  \/ ManifestLoaded
  \/ SelectProject
  \/ SelectVersion
  \/ UnmountApp
  \/ MountDiagram
  \/ ChangeCode
  \/ UnmountDiagram
  \/ RenderSettled
  \/ MountMindmap
  \/ ChangeMarkdown
  \/ UnmountMindmap
  \/ DataSettled

\* --------------------------------------------------------- the state machine
NoResult == [threw |-> FALSE, lines |-> <<>>]

\* No emitter call is under way (the other parts of the repository run).
EmitterIdle ==
  pc = "idle" /\ op = "none" /\ arg = <<>> /\ res = NoResult /\ log = <<>>

HostIdle == LoadIdle /\ IndexerIdle /\ OverviewIdle /\ ShellIdle

Init ==
  /\ pc = "ready"
  /\ res = NoResult
  /\ log = <<>>
  /\ HostIdle
  /\ \/ op = "generateFlowchartForFlow" /\ arg \in FlowInputs
     \/ op = "generateStateDiagram" /\ arg \in StateMachineInputs
     \/ op = "generateModuleDependencyGraph" /\ arg \in GraphInputs
     \/ op = "generateMindmapMarkdown" /\ arg \in MindInputs
     \/ op = "safeNodeId" /\ arg \in SafeNodeIdInputs
     \/ op = "escapeLabel" /\ arg \in TextInputs
     \/ op = "escapeMindmapText" /\ arg \in TextInputs
     \/ op = "uniqueStrings" /\ arg \in ListInputs

CallFlowchartForFlow ==
  /\ pc = "ready" /\ op = "generateFlowchartForFlow"
  /\ res' = generateFlowchartForFlow(arg.flow, arg.rules)
  /\ arg' = [arg EXCEPT !.flow = flowAfterCall(arg.flow)]
  /\ pc' = "done"
  /\ UNCHANGED <<op, log, hostVars>>

CallStateDiagram ==
  /\ pc = "ready" /\ op = "generateStateDiagram"
  /\ res' = generateStateDiagram(arg)
  /\ pc' = "done"
  /\ UNCHANGED <<op, arg, log, hostVars>>

CallModuleDependencyGraph ==
  /\ pc = "ready" /\ op = "generateModuleDependencyGraph"
  /\ res' = generateModuleDependencyGraph(arg)
  /\ pc' = "done"
  /\ UNCHANGED <<op, arg, log, hostVars>>

CallMindmapMarkdown ==
  /\ pc = "ready" /\ op = "generateMindmapMarkdown"
  /\ res' = generateMindmapMarkdown(arg)
  /\ arg' = manifestAfterCall(arg)
  /\ pc' = "done"
  /\ UNCHANGED <<op, log, hostVars>>

CallSafeNodeId ==
  /\ pc = "ready" /\ op = "safeNodeId"
  /\ res' = Returned(safeNodeId(arg.prefix, arg.raw))
  /\ pc' = "done"
  /\ UNCHANGED <<op, arg, log, hostVars>>

CallEscapeLabel ==
  /\ pc = "ready" /\ op = "escapeLabel"
  /\ res' = Returned(escapeLabel(arg))
  /\ pc' = "done"
  /\ UNCHANGED <<op, arg, log, hostVars>>

CallEscapeMindmapText ==
  /\ pc = "ready" /\ op = "escapeMindmapText"
  /\ res' = Returned(escapeMindmapText(arg))
  /\ pc' = "done"
  /\ UNCHANGED <<op, arg, log, hostVars>>

CallUniqueStrings ==
  /\ pc = "ready" /\ op = "uniqueStrings"
  /\ res' = Returned(uniqueStrings(arg))
  /\ pc' = "done"
  /\ UNCHANGED <<op, arg, log, hostVars>>

Next ==
  \/ CallFlowchartForFlow
  \/ CallStateDiagram
  \/ CallModuleDependencyGraph
  \/ CallMindmapMarkdown
  \/ CallSafeNodeId
  \/ CallEscapeLabel
  \/ CallEscapeMindmapText
  \/ CallUniqueStrings

Spec == Init /\ [][Next]_vars

\* ------------------------------------------------ a session of several calls
\* The fragments an overview session calls the emitters on.
SessionInputs ==
  {<<"generateFlowchartForFlow", x>> :
     x \in {y \in FlowInputs : y.flow.id = <<"f", "1">> /\ y.flow.trigger = None
                                /\ Len(y.flow.steps) = 1 /\ y.flow.steps[1].order = 1}}
  \cup {<<"generateStateDiagram", x>> :
          x \in {y \in StateMachineInputs : Len(y.states) = 1 /\ y.transitions = <<>>
                                            /\ y.states[1].is_initial = None}}
  \cup {<<"generateModuleDependencyGraph", x>> :
          x \in {y \in GraphInputs : Len(y.modules) = 1 /\ y.modules[1].id = <<"a">>
                                     /\ y.modules[1].dependencies
                                          \in {Some(<<<<"b">>>>), Some(<<<<"c">>, <<"c">>>>)}}}
  \cup {<<"generateMindmapMarkdown", x>> :
          x \in {y \in MindInputs : y.modules = <<>> /\ y.data_models = <<>>
                                    /\ y.glossary = <<>> /\ y.changelog = <<>>}}

SessionInit ==
  /\ pc = "ready"
  /\ res = NoResult
  /\ log = <<>>
  /\ HostIdle
  /\ \E first \in SessionInputs : op = first[1] /\ arg = first[2]

\* The overview is rendered again for another selection (or the same one):
\* the call that has returned is history, the next one is about to run.
CallAgain ==
  /\ pc = "done"
  /\ Len(log) < MaxCalls - 1
  /\ log' = Append(log, [op |-> op, arg |-> arg, res |-> res])
  /\ \E next \in SessionInputs : op' = next[1] /\ arg' = next[2]
  /\ pc' = "ready"
  /\ UNCHANGED <<res, hostVars>>

SessionNext ==
  \/ CallFlowchartForFlow
  \/ CallStateDiagram
  \/ CallModuleDependencyGraph
  \/ CallMindmapMarkdown
  \/ CallAgain

SessionSpec == SessionInit /\ [][SessionNext]_vars

\* ------------------------------------------------------ one fetchManifest call
LoadInit ==
  /\ EmitterIdle /\ IndexerIdle /\ OverviewIdle /\ ShellIdle
  /\ \E file \in ManifestFiles : load = LoadStarted(file)

LoadSpec == LoadInit /\ [][LoadNext]_vars

\* -------------------------------------------- one indexer run and one reader
\* Before the run each target is missing or is the complete file of an
\* earlier run.
IndexerInit ==
  /\ EmitterIdle /\ LoadIdle /\ OverviewIdle /\ ShellIdle
  /\ \E present \in SUBSET TargetPaths :
       LET order == CHOOSE s \in [1..Cardinality(TargetPaths) -> TargetPaths] :
                      \A i, j \in DOMAIN s : i /= j => s[i] /= s[j]
           at(p) == CHOOSE i \in DOMAIN order : order[i] = p
       IN disk = [names |-> [p \in Paths |-> IF p \in present THEN at(p) ELSE 0],
                  inodes |-> [i \in DOMAIN order |-> Content("previous", FileChunks)]]
  /\ indexer = IndexerStart
  /\ reader = ReaderStart

IndexerSpec == IndexerInit /\ [][IndexerNext]_vars

\* ------------------------------------------------ one overview, many selections
OverviewInit ==
  /\ EmitterIdle /\ LoadIdle /\ IndexerIdle /\ ShellIdle
  /\ \E manifest \in OverviewManifests : overview = Mounted(manifest)

OverviewSpec == OverviewInit /\ [][OverviewNext]_vars

\* ------------------------------------------------ App and its diagram components
\* App has mounted: the project loader has set loading, cleared error and
\* issued its fetch; the other two loaders returned at once (no project).
ShellInit ==
  /\ EmitterIdle /\ LoadIdle /\ IndexerIdle /\ OverviewIdle
  /\ app = AppStart
  /\ runs = {Run("projects", "", "", "", "await")}
  /\ requested = {}
  /\ diagram = DiagramUnmounted
  /\ mindmap = MindmapUnmounted
  /\ mermaidInitialized = FALSE
  /\ initializeCalls = 0
  /\ events = 0

ShellSpec == ShellInit /\ [][ShellNext]_vars

\* ------------------------------------------------------------------ claims
Done(name) == pc = "done" /\ op = name

LinesOf(kind) == SelectSeq(res.lines, LAMBDA l : l.kind = kind)

IsStepId(id) == Len(id) >= 2 /\ id[1] = "S" /\ \A i \in 2..Len(id) : id[i] \in Digits

PlaceholderId == <<"E", "M", "P", "T", "Y">>
TriggerId == <<"T", "R">>

\* The step nodes of a flowchart, in output order.
StepNodeLines == SelectSeq(res.lines, LAMBDA l : l.kind = "node" /\ IsStepId(l.id))

\* The edges of a flowchart that leave a step node, in output order.
StepEdgeLines == SelectSeq(res.lines, LAMBDA l : l.kind = "edge" /\ IsStepId(l.from))

\* C1: whatever the array order of the steps, the step nodes S1..Sn show the
\* steps of the flow, each once, in non-decreasing order value; the trigger
\* node TR has an edge to S1, and the edges that leave step nodes are exactly
\* S(i) --> S(i+1) for i in 1..n-1.
C1_StepsChainedInAscendingOrder ==
  Done("generateFlowchartForFlow") =>
    LET steps == arg.flow.steps
        n == Len(steps)
        nodes == StepNodeLines
    IN /\ Len(nodes) = n
       /\ \A i \in 1..n : nodes[i].id = stepId(i)
       /\ \E p \in Permutations(1..n) :
            /\ \A i \in 1..n :
                 nodes[i].label = escapeLabel(stepParts(steps[p[i]], arg.rules))
            /\ \A i \in 1..(n - 1) : steps[p[i]].order <= steps[p[i + 1]].order
       /\ n >= 1 =>
            Cardinality({k \in 1..Len(res.lines) :
                           res.lines[k] = Edge(TriggerId, stepId(1), "-->")}) = 1
       /\ StepEdgeLines = [i \in 1..(n - 1) |-> Edge(stepId(i), stepId(i + 1), "-->")]

\* A flow whose steps are out of order in the array, two of them with equal
\* order values, has been rendered.
C1_Witness ==
  /\ Done("generateFlowchartForFlow")
  /\ Len(arg.flow.steps) = 3
  /\ arg.flow.steps[1].order = 3
  /\ arg.flow.steps[2].order = 1
  /\ arg.flow.steps[3].order = 1
  /\ arg.flow.steps[2].name # arg.flow.steps[3].name
  /\ Len(StepNodeLines) = 3

\* C7: a flow without steps gets exactly one placeholder node and exactly one
\* edge from TR to it, no step node and no edge leaving a step node; a flow
\* with steps gets no placeholder node and no edge to one.
C7_PlaceholderOnlyWithoutSteps ==
  Done("generateFlowchartForFlow") =>
    LET n == Len(arg.flow.steps)
        placeholders == SelectSeq(res.lines,
                                  LAMBDA l : l.kind = "node" /\ l.id = PlaceholderId)
        toPlaceholder == SelectSeq(res.lines,
                                   LAMBDA l : l.kind = "edge" /\ l.to = PlaceholderId)
        fromTrigger == SelectSeq(res.lines,
                                 LAMBDA l : l.kind = "edge" /\ l.from = TriggerId)
    IN /\ ~res.threw
       /\ n = 0 => /\ Len(placeholders) = 1
                   /\ fromTrigger = <<Edge(TriggerId, PlaceholderId, "-->")>>
                   /\ toPlaceholder = fromTrigger
                   /\ StepNodeLines = <<>>
                   /\ StepEdgeLines = <<>>
       /\ n > 0 => /\ placeholders = <<>>
                   /\ toPlaceholder = <<>>

C7_Witness ==
  /\ Done("generateFlowchartForFlow")
  /\ arg.flow.steps = <<>>
  /\ \E k \in 1..Len(res.lines) : res.lines[k] = Edge(TriggerId, PlaceholderId, "-->")

\* ----------------------------------------------------- state diagram claims
StartArrows == SelectSeq(res.lines, LAMBDA l : l.kind = "arrow" /\ l.from = Pseudo)

\* The arrows of the transitions: neither from nor to the pseudostate.
TransitionArrowLines ==
  SelectSeq(res.lines, LAMBDA l : l.kind = "arrow" /\ l.from # Pseudo /\ l.to # Pseudo)

StateDeclLines == LinesOf("state")

Declared(states, id) == \E i \in 1..Len(states) : states[i].id = id

\* The alias under which the output declares the states of this id.
DeclaredAliases(states, id) ==
  {StateDeclLines[i].alias : i \in {j \in 1..Len(states) : states[j].id = id}}

\* C5: a transition whose from or to id matches no declared state does not
\* make generateStateDiagram throw; there is exactly one arrow per transition,
\* in input order, an endpoint that names a declared state is that state's
\* alias, and every endpoint, a dangling one too, is a non-empty alias.
C5_OneArrowPerTransition ==
  Done("generateStateDiagram") =>
    LET states == arg.states
        ts == arg.transitions
        arrows == TransitionArrowLines
    IN /\ ~res.threw
       /\ Len(StateDeclLines) = Len(states)
       /\ Len(arrows) = Len(ts)
       /\ \A k \in 1..Len(ts) :
            /\ arrows[k].from # <<>> /\ arrows[k].to # <<>>
            /\ \A c \in 1..Len(arrows[k].from) : arrows[k].from[c] \in IdChars
            /\ \A c \in 1..Len(arrows[k].to) : arrows[k].to[c] \in IdChars
            /\ Declared(states, ts[k].from) =>
                 DeclaredAliases(states, ts[k].from) = {arrows[k].from}
            /\ Declared(states, ts[k].to) =>
                 DeclaredAliases(states, ts[k].to) = {arrows[k].to}
            /\ arrows[k].label =
                 (IF ts[k].trigger = <<>> THEN <<>> ELSE <<":", " ">> \o ts[k].trigger)

\* A diagram with two transitions has been emitted, the first with a dangling
\* source, the second with a dangling (empty) target.
C5_Witness ==
  /\ Done("generateStateDiagram")
  /\ Len(arg.transitions) = 2
  /\ ~Declared(arg.states, arg.transitions[1].from)
  /\ ~Declared(arg.states, arg.transitions[2].to)
  /\ arg.transitions[2].to = <<>>
  /\ arg.transitions[1] # arg.transitions[2]
  /\ Len(arg.states) > 0
  /\ Len(TransitionArrowLines) = 2

\* C8 (as claimed): a state machine with at least one state gets exactly one
\* arrow leaving [*], to the alias of the first state flagged is_initial, or
\* of the first declared state when none is flagged.
C8_OneInitialArrow ==
  Done("generateStateDiagram") /\ Len(arg.states) >= 1 =>
    LET states == arg.states
        flagged == {i \in 1..Len(states) : Flag(states[i].is_initial)}
        first == IF flagged = {} THEN 1 ELSE CHOOSE i \in flagged : \A j \in flagged : i <= j
    IN /\ Len(StartArrows) = 1
       /\ StartArrows[1].to = StateDeclLines[first].alias

\* C9 (as claimed): the i-th state is declared under the alias S<i>, so no
\* two declared states share an alias.
C9_AliasIsPosition ==
  Done("generateStateDiagram") =>
    /\ Len(StateDeclLines) = Len(arg.states)
    /\ \A i \in 1..Len(arg.states) : StateDeclLines[i].alias = <<"S">> \o NumStr(i)

\* C9 (amended): the i-th state is declared under the alias S<j>, where j is
\* the position of the last state that has the id of the i-th; so when the
\* state ids are pairwise distinct the i-th state is declared as S<i> and no
\* two states share an alias, and states of one id share one alias.
C9_AliasIsLastPositionOfId ==
  Done("generateStateDiagram") =>
    LET states == arg.states
        n == Len(states)
        decl == StateDeclLines
        last(i) == CHOOSE j \in 1..n :
                     /\ states[j].id = states[i].id
                     /\ \A k \in (j + 1)..n : states[k].id # states[i].id
    IN /\ Len(decl) = n
       /\ \A i \in 1..n : decl[i].alias = <<"S">> \o NumStr(last(i))
       /\ (\A i, j \in 1..n : i # j => states[i].id # states[j].id) =>
            /\ \A i \in 1..n : decl[i].alias = <<"S">> \o NumStr(i)
            /\ \A i, j \in 1..n : i # j => decl[i].alias # decl[j].alias
       /\ \A i, j \in 1..n : states[i].id = states[j].id <=> decl[i].alias = decl[j].alias

\* Two states of one id have been declared, and they share the alias S2.
C9_Witness ==
  /\ Done("generateStateDiagram")
  /\ Len(arg.states) = 2
  /\ arg.states[1].id = arg.states[2].id
  /\ StateDeclLines[1].alias = <<"S", "2">>
  /\ StateDeclLines[2].alias = <<"S", "2">>

\* -------------------------------------------------- dependency graph claims
ModPrefix == <<"m", "o", "d", "_">>
ExtPrefix == <<"e", "x", "t", "_">>

RECURSIVE FirstOccurrencesFrom(_, _)
FirstOccurrencesFrom(xs, i) ==
  IF i > Len(xs) THEN <<>>
  ELSE (IF xs[i] # <<>> /\ \A j \in 1..(i - 1) : xs[j] # xs[i] THEN <<xs[i]>> ELSE <<>>)
       \o FirstOccurrencesFrom(xs, i + 1)

\* The distinct non-empty dependency strings of a module, in the order of
\* their first occurrence.
ListedDependencies(m) ==
  FirstOccurrencesFrom(IF m.dependencies.has THEN m.dependencies.v ELSE <<>>, 1)

IsModuleId(modules, d) == \E i \in 1..Len(modules) : modules[i].id = d

\* The node a dependency string stands for.
DependencyNodeId(modules, d) ==
  IF IsModuleId(modules, d) THEN safeNodeId(ModPrefix, d) ELSE safeNodeId(ExtPrefix, d)

\* The pairs <<module position, dependency string>> in emission order.
ListedPairs(modules) ==
  Flatten([i \in 1..Len(modules) |->
             LET ds == ListedDependencies(modules[i])
             IN [k \in 1..Len(ds) |-> <<i, ds[k]>>]])

ExternalNodeLines ==
  SelectSeq(res.lines,
            LAMBDA l : l.kind = "node" /\ Len(l.id) >= 4 /\ SubSeq(l.id, 1, 4) = ExtPrefix)

TextPieces(l) ==
  CASE l.kind = "header" -> {l.text}
    [] l.kind = "comment" -> {l.text}
    [] l.kind = "node" -> {l.id, l.label}
    [] l.kind = "edge" -> {l.from, l.to}
    [] l.kind = "state" -> {l.name, l.alias}
    [] l.kind = "arrow" -> {l.from, l.to, l.label}
    [] OTHER -> {l.text}

\* C3: no line that generateModuleDependencyGraph, generateFlowchartForFlow
\* or generateStateDiagram emits holds a raw double quote or a raw newline
\* in a piece filled in from manifest text (the quotes that delimit a label
\* are the template's own and are not part of a piece).
C3_NoRawQuoteOrNewline ==
  /\ pc = "done"
  /\ op \in {"generateModuleDependencyGraph", "generateFlowchartForFlow",
             "generateStateDiagram"}
  => \A k \in 1..Len(res.lines) :
       \A t \in TextPieces(res.lines[k]) : ~Has(t, "\"") /\ ~Has(t, "\n")

\* C6: no emitter throws, whichever optional fields are absent.
C6_NoEmitterThrows == pc = "done" => ~res.threw

\* ---------------------------------------------------------- outline claims
RECURSIVE Repeat(_, _)
Repeat(s, n) == IF n <= 0 THEN <<>> ELSE s \o Repeat(s, n - 1)

\* The characters of an outline line: pushTitle's and push's template.
mdRender(l) ==
  IF l.kind = "title" THEN Repeat(<<"#">>, l.level) \o <<" ">> \o l.text
  ELSE Repeat(<<" ", " ">>, l.level) \o <<"-", " ">> \o l.text

RECURSIVE SplitLines(_, _)
\* text.split('\n'), cur being the piece under construction.
SplitLines(text, cur) ==
  IF text = <<>> THEN <<cur>>
  ELSE IF Head(text) = "\n" THEN <<cur>> \o SplitLines(Tail(text), <<>>)
  ELSE SplitLines(Tail(text), Append(cur, Head(text)))

IsHeadingLine(s) ==
  \E k \in 1..MaxHeadingLevel :
    /\ Len(s) > k
    /\ \A i \in 1..k : s[i] = "#"
    /\ s[k + 1] = " "

IsBulletLine(s) ==
  \E k \in 0..Len(s) :
    /\ Len(s) >= k + 2
    /\ \A i \in 1..k : s[i] = " "
    /\ s[k + 1] = "-"
    /\ s[k + 2] = " "

\* C4: every line of the outline is a heading line or a bullet line, and no
\* manifest text brings a line break or a raw [ or ] into it.
C4_OutlineLinesWellFormed ==
  Done("generateMindmapMarkdown") =>
    \A k \in 1..Len(res.lines) :
      LET text == mdRender(res.lines[k])
          pieces == SplitLines(text, <<>>)
      IN /\ \A i \in 1..Len(pieces) : IsHeadingLine(pieces[i]) \/ IsBulletLine(pieces[i])
         /\ ~Has(text, "\n") /\ ~Has(text, "[") /\ ~Has(text, "]")

HasLine(l) == \E k \in 1..Len(res.lines) : res.lines[k] = l

\* The level-0 bullets that announce one collection of the modules.
SectionBullets(label) ==
  SelectSeq(res.lines,
            LAMBDA l : l.kind = "bullet" /\ l.level = 0 /\ Len(l.text) > 1
                       /\ l.text[1] = label)

\* The count lines the modules' collections get when only the non-empty
\* ones are announced, in module order.
NonEmptySections(label, field) ==
  LET ms == SelectSeq(arg.modules, LAMBDA m : Len(m[field]) > 0)
  IN [i \in 1..Len(ms) |-> Bullet(0, Lit(label) \o Count(Len(ms[i][field])))]

AllStateMachines == Flatten([i \in 1..Len(arg.modules) |-> arg.modules[i].state_machines])

ModuleSections ==
  {<<"zh:flows", "flows">>, <<"zh:rules", "rules">>,
   <<"zh:state-machines", "state_machines">>, <<"zh:pseudocode", "pseudocodes">>}

C12_NeverBarePrefix ==
  Done("safeNodeId") =>
    /\ res.value # arg.prefix
    /\ arg.raw = <<>> => res.value = arg.prefix \o <<"x">>

\* The part of a returned node id after the prefix.
Component == SubSeq(res.value, Len(arg.prefix) + 1, Len(res.value))

\* C13: safeNodeId returns the prefix followed by a component of characters
\* of [A-Za-z0-9_] that does not start with a digit: the characters of raw in
\* their order, each one outside the class replaced by '_' and none dropped,
\* behind one more '_' exactly when the first of them is a digit.
C13_ComponentIsReplacedRaw ==
  Done("safeNodeId") =>
    LET raw == arg.raw
        comp == Component
        lead == raw # <<>> /\ raw[1] \in Digits
        off == IF lead THEN 1 ELSE 0
    IN /\ Len(res.value) >= Len(arg.prefix)
       /\ SubSeq(res.value, 1, Len(arg.prefix)) = arg.prefix
       /\ \A i \in 1..Len(comp) : comp[i] \in IdChars
       /\ comp # <<>> => comp[1] \notin Digits
       /\ Len(comp) = Len(raw) + off
       /\ lead => comp[1] = "_"
       /\ \A i \in 1..Len(raw) :
            comp[i + off] = IF raw[i] \in IdChars THEN raw[i] ELSE "_"

\* A raw id that starts with a digit and holds a character outside the class
\* has been sanitized.
C13_Witness ==
  /\ Done("safeNodeId")
  /\ arg.raw = <<"7", "-", "U+4E2D">>
  /\ res.value = arg.prefix \o <<"_", "7", "_", "_">>
\* ------------------------------------------------------------ C15, C16
\* What escapeLabel is claimed to put in the place of one character.
LabelImage(c) ==
  CASE c = "\\" -> <<"\\", "\\">>
    [] c = "\"" -> <<"'">>
    [] c = "\n" -> <<"<", "b", "r", "/", ">">>
    [] OTHER -> <<c>>

CountOf(s, c) == Cardinality({i \in 1..Len(s) : s[i] = c})

\* C15: escapeLabel puts two backslashes for every backslash, a single quote
\* for every double quote and <br/> for every newline, and leaves every other
\* character in its place; the result holds no double quote and no newline,
\* and twice the backslashes of the input.
C15_EscapeLabelImage ==
  Done("escapeLabel") =>
    /\ res.value = Flatten([i \in 1..Len(arg) |-> LabelImage(arg[i])])
    /\ ~Has(res.value, "\"")
    /\ ~Has(res.value, "\n")
    /\ CountOf(res.value, "\\") = 2 * CountOf(arg, "\\")

\* A text with a backslash, a double quote and a newline has been escaped.
C15_Witness ==
  /\ Done("escapeLabel")
  /\ arg = <<"\\", "\"", "\n">>
  /\ res.value = <<"\\", "\\", "'", "<", "b", "r", "/", ">">>

\* The full-width form of an ASCII parenthesis or square bracket.
FullWidth(c) ==
  CASE c = "(" -> "U+FF08"
    [] c = ")" -> "U+FF09"
    [] c = "[" -> "U+3010"
    [] c = "]" -> "U+3011"
    [] OTHER -> c

\* C16: escapeMindmapText gives escapeLabel(text) with every ( ) [ ] replaced
\* by its full-width form; the result holds none of ( ) [ ], no double quote
\* and no newline.
C16_OutlineTextIsFullWidthLabel ==
  Done("escapeMindmapText") =>
    LET label == escapeLabel(arg)
    IN /\ res.value = [i \in 1..Len(label) |-> FullWidth(label[i])]
       /\ \A c \in {"(", ")", "[", "]", "\"", "\n"} : ~Has(res.value, c)

\* A text with a bracket, a parenthesis and a double quote has been escaped.
C16_Witness ==
  /\ Done("escapeMindmapText")
  /\ arg = <<"[", ")", "\"">>
  /\ res.value = <<"U+3010", "U+FF09", "'">>

\* ----------------------------------------------------------------- C19
\* The position of the first occurrence of x in xs.
FirstIndex(xs, x) == CHOOSE i \in 1..Len(xs) : xs[i] = x /\ \A j \in 1..(i - 1) : xs[j] # x

\* C19: uniqueStrings returns the non-empty entries of the list, each once,
\* in the order of their first occurrences in the list.
C19_NonEmptyOnceInFirstOrder ==
  Done("uniqueStrings") =>
    LET out == res.value
    IN /\ {out[i] : i \in 1..Len(out)} = {arg[i] : i \in 1..Len(arg)} \ {<<>>}
       /\ \A i, j \in 1..Len(out) : i # j => out[i] # out[j]
       /\ \A i, j \in 1..Len(out) :
            i < j => FirstIndex(arg, out[i]) < FirstIndex(arg, out[j])

\* A list with an empty entry and a repeated entry has been given: the
\* repeated entry stays at its first place.
C19_Witness ==
  /\ Done("uniqueStrings")
  /\ arg = <<<<"b">>, <<>>, <<"a">>, <<"b">>>>
  /\ res.value = <<<<"b">>, <<"a">>>>
\* ------------------------------------------------------------ C11, C14
\* The node lines of the modules: one per module entry, right after the
\* header; every later node line declares an external dependency.
ModuleNodeIds == {res.lines[n].id : n \in 2..(1 + Len(arg.modules))}

ExternalNodeIds ==
  {res.lines[n].id : n \in {k \in (2 + Len(arg.modules))..Len(res.lines) :
                               res.lines[k].kind = "node"}}

\* C11: in the dependency graph no node id of a module equals the node id
\* of an external dependency, and no edge to an external dependency ends at
\* the node of a module.
C11_NamespacesDisjoint ==
  Done("generateModuleDependencyGraph") =>
    /\ ModuleNodeIds \cap ExternalNodeIds = {}
    /\ \A n \in (2 + Len(arg.modules))..(Len(res.lines) - 1) :
         res.lines[n].kind = "node" => res.lines[n + 1].to \notin ModuleNodeIds

\* A module a-b depends on a.b, which is no module: the two sanitize to the
\* same component and are told apart by the prefix alone.
C11_Witness ==
  /\ Done("generateModuleDependencyGraph")
  /\ Len(arg.modules) = 1
  /\ arg.modules[1].id = <<"a", "-", "b">>
  /\ <<"m", "o", "d", "_", "a", "_", "b">> \in ModuleNodeIds
  /\ <<"e", "x", "t", "_", "a", "_", "b">> \in ExternalNodeIds
  /\ <<"e", "x", "t", "_", "m", "o", "d", "_", "c">> \in ExternalNodeIds

\* The node id the i-th module entry is declared under.
ModuleNodeId(i) == res.lines[1 + i].id

OnlyIdChars(id) == \A k \in 1..Len(id) : id[k] \in IdChars

\* An id the sanitizer returns as it is.
CleanId(id) == OnlyIdChars(id) /\ (id = <<>> \/ id[1] \notin Digits)

\* The id with '_' for every character outside [A-Za-z0-9_] and a '_' in
\* front of a leading digit.
Sanitized(id) ==
  (IF id # <<>> /\ id[1] \in Digits THEN <<"_">> ELSE <<>>)
  \o [k \in 1..Len(id) |-> IF id[k] \in IdChars THEN id[k] ELSE "_"]

\* C14 (as stated): a module whose id is made only of [A-Za-z0-9_]
\* characters shares its node id with no module of another id.
C14_IdCharsModuleNeverShares ==
  Done("generateModuleDependencyGraph") =>
    \A i, j \in 1..Len(arg.modules) :
      (arg.modules[i].id # arg.modules[j].id /\ OnlyIdChars(arg.modules[i].id))
      => ModuleNodeId(i) # ModuleNodeId(j)

\* C14 (amended): two modules are declared under the same node id exactly
\* when their ids are equal after every character outside [A-Za-z0-9_] is
\* replaced by '_' and a leading digit is preceded by '_'.  Two modules of
\* distinct ids that both hold only [A-Za-z0-9_] characters and do not start
\* with a digit never share a node id; a module a_b shares the node mod_a_b
\* with a module a-b and with a module a.b.
C14_SharedExactlyWhenSanitizedEqual ==
  Done("generateModuleDependencyGraph") =>
    \A i, j \in 1..Len(arg.modules) :
      LET a == arg.modules[i].id
          b == arg.modules[j].id
      IN /\ ModuleNodeId(i) = ModuleNodeId(j) <=> Sanitized(a) = Sanitized(b)
         /\ (CleanId(a) /\ CleanId(b) /\ a # b) => ModuleNodeId(i) # ModuleNodeId(j)
         /\ (a = <<"a", "_", "b">> /\ b \in {<<"a", "-", "b">>, <<"a", ".", "b">>})
            => ModuleNodeId(i) = ModuleNodeId(j)

\* Modules a_b and a-b of one manifest are both declared as mod_a_b.
C14_Witness ==
  /\ Done("generateModuleDependencyGraph")
  /\ Len(arg.modules) = 2
  /\ arg.modules[1].id = <<"a", "_", "b">>
  /\ arg.modules[2].id = <<"a", "-", "b">>
  /\ ModuleNodeId(1) = <<"m", "o", "d", "_", "a", "_", "b">>
  /\ ModuleNodeId(2) = ModuleNodeId(1)
\* ----------------------------------------------------------------- C17
\* The name a rule id of a step stands for: that of the last rule of the id,
\* or the id itself when the rules hold none.
ResolvedName(rules, rid) ==
  IF \E k \in 1..Len(rules) : rules[k].id = rid
  THEN LET last == CHOOSE k \in 1..Len(rules) :
                     rules[k].id = rid /\ \A n \in (k + 1)..Len(rules) : rules[n].id # rid
       IN rules[last].name
  ELSE rid

ResolvedNames(step, rules) ==
  LET rids == IF step.rules.has THEN step.rules.v ELSE <<>>
  IN [k \in 1..Len(rids) |-> ResolvedName(rules, rids[k])]

RECURSIVE FirstOfEach(_, _)
\* The entries of xs from position i on that occur at no earlier position.
FirstOfEach(xs, i) ==
  IF i > Len(xs) THEN <<>>
  ELSE (IF \A j \in 1..(i - 1) : xs[j] # xs[i] THEN <<xs[i]>> ELSE <<>>)
       \o FirstOfEach(xs, i + 1)

\* The label of a step node whose rule line lists the given names.
StepLabel(step, names) ==
  escapeLabel(
    NumStr(step.order) \o <<".", " ">> \o step.name
    \o (IF Truthy(step.description) THEN <<"\n">> \o step.description.v ELSE <<>>)
    \o (IF names # <<>>
        THEN <<"\n">> \o Lit("zh:rules:") \o Join(names, Lit("zh:,"))
        ELSE <<>>))

\* C17 (as stated): the rule line of a step lists the resolved names of the
\* rule ids of step.rules in their order, repeated names removed; a step that
\* references no rule has no rule line.
C17_RuleLineListsResolvedNames ==
  Done("generateFlowchartForFlow") =>
    LET sorted == sortSteps(arg.flow.steps)
        nodes == StepNodeLines
    IN /\ Len(nodes) = Len(sorted)
       /\ \A i \in 1..Len(nodes) :
            nodes[i].label =
              StepLabel(sorted[i], FirstOfEach(ResolvedNames(sorted[i], arg.rules), 1))

\* C17 (amended): the rule line of a step lists, for the rule ids of
\* step.rules in their order, the name of the last Rule of that id among the
\* rules given, or the raw rule id when no Rule has that id, with empty names
\* and empty ids dropped and repeated names removed (first occurrence kept);
\* a step for which no non-empty name remains - one that references no rule
\* among them - has no rule line.
C17_RuleLineListsNonEmptyResolvedNames ==
  Done("generateFlowchartForFlow") =>
    LET sorted == sortSteps(arg.flow.steps)
        nodes == StepNodeLines
    IN /\ Len(nodes) = Len(sorted)
       /\ \A i \in 1..Len(nodes) :
            nodes[i].label =
              StepLabel(sorted[i],
                        FirstOccurrencesFrom(ResolvedNames(sorted[i], arg.rules), 1))

\* A step references r1 twice, r2, an unknown id and the empty id; r1 is the
\* id of two rules and r2 the id of a rule without a name: the line lists the
\* name of the second r1 rule and the unknown id.
C17_Witness ==
  /\ Done("generateFlowchartForFlow")
  /\ arg.rules = DuplicateRules
  /\ Len(arg.flow.steps) = 1
  /\ arg.flow.steps[1].rules = Some(<<<<"r", "1">>, <<"r", "2">>, <<"z", "\"">>, <<>>, <<"r", "1">>>>)
  /\ arg.flow.steps[1].description = None
  /\ Len(StepNodeLines) = 1
  /\ StepNodeLines[1].label =
       <<"1", ".", " ", "n", "'", "<", "b", "r", "/", ">", "zh:rules:", "B", "zh:,", "z", "'">>

\* ----------------------------------------------------------------- C18
\* The text of a code reference: the file, then the function when there is
\* a non-empty one, then the line when there is one, with ':' in between;
\* nothing for an absent reference.
CodeText(ref) ==
  IF ~ref.has THEN <<>>
  ELSE ref.v.file
       \o (IF ref.v.function.has /\ ref.v.function.v # <<>>
           THEN <<":">> \o ref.v.function.v ELSE <<>>)
       \o (IF ref.v.line.has THEN <<":">> \o NumStr(ref.v.line.v) ELSE <<>>)

CodeId == <<"C", "O", "D", "E">>

\* The lines of the code location: the node CODE and every dotted edge.
CodeLines ==
  SelectSeq(res.lines,
            LAMBDA l : \/ l.kind = "node" /\ l.id = CodeId
                       \/ l.kind = "edge" /\ (l.arrow = "-.->" \/ l.to = CodeId))

\* C18: generateFlowchartForFlow ends with the node CODE, labelled with the
\* text of the code reference, and the dotted edge T -.-> CODE exactly when
\* that text is not empty; otherwise it emits no code-location line.
C18_CodeNodeIffCodeText ==
  Done("generateFlowchartForFlow") =>
    LET code == CodeText(arg.flow.code_ref)
        n == Len(res.lines)
    IN IF code # <<>>
       THEN /\ CodeLines = <<Node(CodeId, <<"[">>, escapeLabel(Lit("zh:code:") \o code), <<"]">>),
                             Edge(<<"T">>, CodeId, "-.->")>>
            /\ n >= 2
            /\ <<res.lines[n - 1], res.lines[n]>> = CodeLines
       ELSE CodeLines = <<>>

\* A flow whose reference has a file, a function and a line has its code
\* node, labelled with the three parts.
C18_Witness ==
  /\ Done("generateFlowchartForFlow")
  /\ arg.flow.code_ref = FullRef
  /\ Len(CodeLines) = 2
  /\ CodeLines[1].label =
       <<"zh:code:", "a", "'", ".", "t", "s", ":", "f", "n", ":", "1", "2">>
MintedAliases == {stepId(i) : i \in 1..Len(arg.states)}

\* C28: the alias at an end of a transition arrow whose state id matches no
\* declared state is none of the aliases S1..Sn minted for the declared
\* states, and none that a declaration of the output uses.
C28_DanglingAliasNotDeclared ==
  Done("generateStateDiagram") =>
    LET ts == arg.transitions
        arrows == TransitionArrowLines
        used == MintedAliases \cup {StateDeclLines[i].alias : i \in 1..Len(StateDeclLines)}
    IN /\ Len(arrows) = Len(ts)
       /\ \A k \in 1..Len(ts) :
            /\ ~Declared(arg.states, ts[k].from) => arrows[k].from \notin used
            /\ ~Declared(arg.states, ts[k].to) => arrows[k].to \notin used

\* A machine with a declared state S1 has a transition from the undeclared
\* id 1 to the undeclared empty id: the arrow goes from S_1 to S.
C28_Witness ==
  /\ Done("generateStateDiagram")
  /\ Len(arg.states) >= 1
  /\ \E k \in 1..Len(arg.transitions) :
       /\ arg.transitions[k].from = <<"1">>
       /\ TransitionArrowLines[k].from = <<"S", "_", "1">>
  /\ \E k \in 1..Len(arg.transitions) :
       /\ arg.transitions[k].to = <<>>
       /\ ~Declared(arg.states, <<>>)
       /\ TransitionArrowLines[k].to = <<"S">>

\* ----------------------------------------------------------------- C29
\* The text holds the characters of part at consecutive positions.
Contains(text, part) ==
  \E i \in 0..(Len(text) - Len(part)) : SubSeq(text, i + 1, i + Len(part)) = part

\* C29 (as stated): no line of the outline holds an ampersand that was
\* escaped twice.
C29_AmpersandEscapedOnce ==
  Done("generateMindmapMarkdown") =>
    \A n \in 1..Len(res.lines) :
      ~Contains(res.lines[n].text, <<"&", "a", "m", "p", ";", "a", "m", "p", ";">>)
IndexPosition(l, k) ==
  IF \E i \in 1..Len(l.file.modules) : l.file.modules[i] = l.result.v.modules[k].id
  THEN CHOOSE i \in 1..Len(l.file.modules) : l.file.modules[i] = l.result.v.modules[k].id
  ELSE 0

\* C27: fetchManifest on a modular index returns exactly the modules whose
\* fetch succeeded, in the order of the index's id list whatever order the
\* fetches completed in; a failed module fetch does not fail the load, a
\* failed data-models fetch gives an empty data_models list, and the load
\* fails only when the index fetch itself failed.
C27_ModulesInIndexOrder ==
  /\ load.phase = "failed" => load.error = "index" /\ load.fetched = <<>>
  /\ (load.phase \in {"modules", "data_models"}
        /\ \A i \in 1..Len(load.fetched) : load.fetched[i] /= "pending")
       => load.error = "none"
  /\ (load.phase = "returned" /\ load.file.structure = "modular") =>
       LET ms == load.result.v.modules IN
         /\ load.result.has
         /\ \A k \in 1..Len(ms) :
              /\ IndexPosition(load, k) /= 0
              /\ load.fetched[IndexPosition(load, k)] = "ok"
         /\ \A i \in 1..Len(load.fetched) :
              load.fetched[i] = "ok" => \E k \in 1..Len(ms) : IndexPosition(load, k) = i
         /\ \A k, m \in 1..Len(ms) :
              k < m => IndexPosition(load, k) < IndexPosition(load, m)
         /\ load.dataModelsFetch = "failed" => load.result.v.data_models = <<>>
         /\ load.dataModelsFetch = "ok" => load.result.v.data_models = DataModelsFile
         /\ load.dataModelsFetch = "none" => load.result.v.data_models = <<>>

\* A load has returned although one module fetch and the data-models fetch
\* failed, with two modules whose fetches completed against the index order.
C27_Witness ==
  /\ load.phase = "returned" /\ load.file.structure = "modular"
  /\ load.dataModelsFetch = "failed"
  /\ \E i \in 1..Len(load.fetched) : load.fetched[i] = "failed"
  /\ Len(load.result.v.modules) = 2
  /\ \E k, m \in 1..Len(load.completed) :
       /\ k < m /\ load.completed[k] > load.completed[m]
       /\ load.fetched[load.completed[k]] = "ok"
       /\ load.fetched[load.completed[m]] = "ok"

\* ----------------------------------------------------------------- C30
\* C30: during an indexer run every index.json and projects.json that
\* exists is a complete file, the previous one or the new one; a reader
\* that opened a file before or during the run reads a complete file to its
\* end, never a partly written one; and the run starts writing projects.json
\* only when every project's index.json has been replaced by the new one.
C30_ReaderSeesCompleteFile ==
  /\ reader.seen /= "partial"
  /\ \A path \in TargetPaths :
       disk.names[path] /= 0 => Complete(Inode(disk, path))
  /\ reader.pc = "open" => Complete(disk.inodes[reader.inode])
  /\ (indexer.i > Len(projectDirs) /\ indexer.pc \in {"write", "done"}) =>
       \A i \in 1..Len(projectDirs) :
         /\ disk.names[IndexJson(projectDirs[i])] /= 0
         /\ Inode(disk, IndexJson(projectDirs[i])) = Content("run", FileChunks)
         /\ \E k \in 1..Len(indexer.renamed) :
              indexer.renamed[k] = IndexJson(projectDirs[i])
  /\ \A k \in 1..Len(indexer.renamed) :
       indexer.renamed[k] = ProjectsJson => k = Len(projectDirs) + 1

\* The reader opened a previous index.json, the run replaced the file while
\* it was open, and the reader still read the previous file whole; the run
\* has finished.
C30_Witness ==
  /\ indexer.pc = "done"
  /\ reader.pc = "done" /\ reader.seen = "previous"
  /\ reader.path /= ProjectsJson
  /\ Inode(disk, reader.path).by = "run"
  /\ disk.names[reader.path] /= reader.inode

\* ----------------------------------------------------------------- C25
\* C25: after any selections, and whatever manifest the view holds, the
\* flow given to generateFlowchartForFlow is a flow of the active module and
\* the rules given with it are that module's rules, the state machine given
\* to generateStateDiagram is one of the active module's, and the active
\* module is a module of the manifest whenever the manifest has any.
C25_ArgumentsBelongToActiveModule ==
  LET m == activeModule(overview)
      flowCall == flowchartArguments(overview)
      smCall == stateDiagramArgument(overview)
  IN /\ overview.manifest /= <<>> =>
          m.has /\ \E i \in 1..Len(overview.manifest) : overview.manifest[i] = m.v
     /\ flowCall.has =>
          /\ m.has
          /\ \E j \in 1..Len(m.v.flows) : m.v.flows[j] = flowCall.v.flow
          /\ flowCall.v.rules = m.v.rules
     /\ smCall.has =>
          /\ m.has
          /\ \E j \in 1..Len(m.v.state_machines) : m.v.state_machines[j] = smCall.v

\* The second module is selected, a flow id that the first module has too,
\* and a state machine that is not the module's first; both emitters
\* are given arguments of the second module.
C25_Witness ==
  /\ Len(overview.manifest) = 2
  /\ activeModule(overview).v = overview.manifest[2]
  /\ overview.manifest[1].id /= overview.manifest[2].id
  /\ \E j \in 1..Len(overview.manifest[1].flows) :
       overview.manifest[1].flows[j].id = overview.flowId
  /\ flowchartArguments(overview).has
  /\ flowchartArguments(overview).v.flow.id = overview.flowId
  /\ stateDiagramArgument(overview).has
  /\ stateDiagramArgument(overview).v = overview.manifest[2].state_machines[2]

\* ----------------------------------------------------------------- C23
\* C23: mermaid.initialize is called at most once, on the first call of
\* ensureMermaidInit, however many times MermaidDiagram mounts and its
\* effect runs; the flag is true exactly from that call on and never goes
\* back to false.
C23_InitializedOnce ==
  /\ [](initializeCalls <= 1 /\ (mermaidInitialized <=> initializeCalls = 1))
  /\ [][mermaidInitialized => mermaidInitialized']_vars

\* The render effect has run three times (a mount and two later runs), the
\* engine was initialized once.
C23_Witness ==
  /\ mermaidInitialized /\ initializeCalls = 1
  /\ Cardinality({r \in runs : r.effect = "render"}) >= 3

\* ----------------------------------------------------------------- C24
\* C24: whatever index.json holds, a list returned by fetchVersions starts
\* with the entry 'latest', and App's versions state starts with 'latest'
\* in every state: before any load, after a load that succeeded and after
\* one that failed.
C24_LatestIsFirst ==
  /\ Len(app.versions) >= 1 /\ app.versions[1].ref = "latest"
  /\ \A i \in 1..Len(ProjectIds) :
       \A raw \in IndexFiles(ProjectIds[i]) \cup {FetchFailed} :
         ~fetchVersions(raw).threw =>
           /\ Len(fetchVersions(raw).value) >= 1
           /\ fetchVersions(raw).value[1].ref = "latest"

\* A version load has succeeded: the list holds 'latest' and then the two
\* commits of the index, the newer one first.
C24_Witness ==
  /\ Len(app.versions) = 3
  /\ app.versions[1].ref = "latest"
  /\ app.versions[2].ref = "a2" /\ app.versions[3].ref = "a1"
  /\ \E r \in runs : r.effect = "versions" /\ r.stage = "done"

\* ----------------------------------------------------------------- C26
\* C26: every manifest request App issues is for 'latest' or for a commit
\* of the requested project: no request pairs a project with a commit
\* selected from another project's version list.
C26_NoForeignCommitRequested ==
  \A request \in requested : Served(request[1], request[2])

\* ----------------------------------------------------------------- C22
\* The state a stale run could overwrite.
Rendered == <<app, diagram, mindmap>>

\* C22: a run whose cleanup has run writes no state when its await settles,
\* in all five effects; and what is shown once no run is pending belongs to
\* the current selection: the manifest is the one of the selected project
\* and version, the versions are the selected project's, the svg is the one
\* of the current code, and loading is set exactly while a load is pending.
C22_StaleRunWritesNothing ==
  /\ [][\A r \in runs :
          (r.canceled /\ Pending(r) /\ r \notin runs') => Rendered' = Rendered]_vars
  /\ [](app.mounted =>
          /\ (app.manifest.has /\ ~Live(runs, "manifest"))
               => app.manifest.v = ManifestFor(app.projectId, app.versionRef)
          /\ (app.projectId /= "" /\ ~Live(runs, "versions"))
               => \A i \in 2..Len(app.versions) :
                    app.versions[i].ref \in CommitsOf(app.projectId)
          /\ Live(runs, "manifest") => app.loading
          /\ (~Live(runs, "manifest") /\ ~Live(runs, "projects")) => ~app.loading
          /\ (diagram.mounted /\ ~Live(runs, "render") /\ diagram.svg /= "")
               => diagram.svg = diagram.code)

\* A manifest fetch that was superseded has settled and was dropped, and
\* the manifest shown is the one of the current selection, loaded by the
\* run that superseded it.
C22_Witness ==
  /\ app.mounted /\ app.manifest.has /\ ~app.loading
  /\ app.manifest.v = ManifestFor(app.projectId, app.versionRef)
  /\ \E r \in runs :
       /\ r.effect = "manifest" /\ r.stage = "dropped"
       /\ ManifestFor(r.projectId, r.ref) /= app.manifest.v
  /\ \E r \in runs :
       /\ r.effect = "manifest" /\ r.stage = "done" /\ ~r.canceled
       /\ ManifestFor(r.projectId, r.ref) = app.manifest.v

====
